---- MODULE Spec2Model ----
(***************************************************************************)
(* The agent memory SDK.  Capability delegation (src/src/lib/ucan.ts):     *)
(* UcanService.issueDelegation, UcanService.verifyDelegation and the CAR / *)
(* base64 transport of a delegation, as state machines over a wall clock.  *)
(* The content store and the mutable pointers behind StorachaService       *)
(* (src/src/lib/storacha.ts) and the AgentRuntime instances that use them  *)
(* (src/src/lib/runtime.ts).                                               *)
(***************************************************************************)
EXTENDS Integers, Sequences, FiniteSets, TLC

VARIABLES
    clock,       \* Date.now(): milliseconds on the wall clock
    delegation,  \* the delegation object in hand (NoDelegation before the first one)
    origin,      \* how the object in hand came to be: none, issued, crafted, tampered
    transport,   \* the serialized form in hand: CAR bytes or base64 text
    result,      \* the outcome of the most recent call
    ipfs,         \* the memory objects the content store serves
    localCache,   \* the files under .agent_storage: address and content
    pointer,      \* per IPNS name created so far, the revision the name service holds
    memoryCids,   \* per runtime, AgentRuntime.memoryCids
    ipnsName,     \* per runtime, AgentRuntime.ipnsName
    ipnsRevision, \* per runtime, AgentRuntime.ipnsRevision
    pending,      \* per runtime, the updateMemoryStream call awaiting its publish
    delegations,         \* per runtime, AgentRuntime.delegations
    receivedDelegations, \* per runtime, AgentRuntime.receivedDelegations
    instances,    \* the identities derived so far, each by a call of its own
    envelope      \* the encrypted payload in hand (NoEnvelope before the first)

\* the delegation ledgers of the runtimes
ledgerVars == <<delegations, receivedDelegations>>

\* the memories of the runtimes, the content store and the name service
storeVars ==
    <<ipfs, localCache, pointer, memoryCids, ipnsName, ipnsRevision, pending>>

\* identities derived from seeds and what was encrypted to them
vaultVars == <<instances, envelope>>

agentVars == <<storeVars, ledgerVars, vaultVars>>

vars == <<clock, delegation, origin, transport, result, agentVars>>

(***************************************************************************)
(* Bounds of the model.                                                    *)
(***************************************************************************)
\* the wall clock is observed over this many hours
MaxHours == 2
\* the largest expirationHours a caller passes
MaxTtl == 2

(***************************************************************************)
(* Identities, abilities and the clock.                                    *)
(***************************************************************************)
\* principals whose private key signs delegations (Signer objects)
Signers == {"did:key:alice", "did:key:bob"}
\* every identifier that can be named as an audience or as an expected issuer
Dids == Signers \cup {"did:key:carol"}
Abilities == {"agent/read", "agent/write"}

MsPerSecond == 1000
SecondsPerHour == 60 * 60

\* Math.floor(Date.now() / 1000)
NowSeconds(ms) == ms \div MsPerSecond

(***************************************************************************)
(* Delegations.  A delegation is the record ucanto's delegate() returns:   *)
(* issuer, audience, capabilities [{with, can}], expiration, and the       *)
(* issuer's signature over that body.                                      *)
(***************************************************************************)
NoDelegation == [kind |-> "none"]

Payload(issuer, audience, capabilities, expiration) ==
    <<issuer, audience, capabilities, expiration>>

\* an Ed25519 signature: who signed, and the body that was signed
Sign(signer, payload) == [signer |-> signer, payload |-> payload]

\* delegate({issuer, audience, capabilities, expiration}) of @ucanto/core
delegate(issuer, audience, capabilities, expiration) ==
    [kind         |-> "delegation",
     issuer       |-> issuer,
     audience     |-> audience,
     capabilities |-> capabilities,
     expiration   |-> expiration,
     signature    |-> Sign(issuer, Payload(issuer, audience, capabilities, expiration))]

\* the signature of d is the issuer's signature over d's present body
SignatureValid(d) ==
    d.signature = Sign(d.issuer, Payload(d.issuer, d.audience, d.capabilities, d.expiration))

(***************************************************************************)
(* UcanService.issueDelegation                                             *)
(***************************************************************************)
\* what a caller passes as issuer or audience: a Signer / principal object
\* (it has a did() method), a bare DID string, or nothing
Principal(did) == [type |-> "principal", did |-> did]
DidString(did) == [type |-> "string", did |-> did]
Undefined == [type |-> "undefined", did |-> ""]

\* typeof x?.did === 'function'
HasDidMethod(x) == x.type = "principal"

\* abilitySchema = z.string().min(1)
AbilitySchemaOk(ability) == ability # ""

\* mutant: z.number().nonnegative()
PositiveOk_NonNegative(expirationHours) == expirationHours >= 0

\* z.number().positive()
PositiveOk(expirationHours) == expirationHours > 0

\* the try block of issueDelegation: every parse passes
IssueParamsOk(issuer, audience, ability, expirationHours) ==
    /\ AbilitySchemaOk(ability)
    /\ PositiveOk(expirationHours)
    /\ HasDidMethod(issuer)
    /\ HasDidMethod(audience)

\* Math.floor(Date.now() / 1000) + (60 * 60 * expirationHours)
ExpirationOf(now, expirationHours) == now + SecondsPerHour * expirationHours

\* mutant: the resource delegated is the audience's
issueDelegation_AudienceScope(issuer, audience, ability, expirationHours, now) ==
    delegate(issuer.did, audience.did,
             << [with |-> audience.did, can |-> ability] >>,
             ExpirationOf(now, expirationHours))

\* the value issueDelegation returns when the parameters are accepted
issueDelegation(issuer, audience, ability, expirationHours, now) ==
    delegate(issuer.did, audience.did,
             << [with |-> issuer.did, can |-> ability] >>,
             ExpirationOf(now, expirationHours))

(***************************************************************************)
(* UcanService.verifyDelegation                                            *)
(***************************************************************************)
Valid == [valid |-> TRUE, reason |-> ""]
Invalid(reason) == [valid |-> FALSE, reason |-> reason]

\* mutant: the expected identifier is compared with the audience
IssuerMismatch_Audience(d, expectedIssuerDid) == d.audience # expectedIssuerDid

\* delegation.issuer.did() !== expectedIssuerDid
IssuerMismatch(d, expectedIssuerDid) == d.issuer # expectedIssuerDid

\* mutant: find(c => c.can), the first entry whatever its ability
FindCapability_First(capabilities, expectedAbility) ==
    IF Len(capabilities) > 0 THEN 1 ELSE 0

\* capabilities.find(c => c.can === expectedAbility): the index of the first
\* entry with that ability, 0 when there is none
FindCapability(capabilities, expectedAbility) ==
    LET hits == { i \in 1..Len(capabilities) : capabilities[i].can = expectedAbility }
    IN  IF hits = {} THEN 0 ELSE CHOOSE i \in hits : \A j \in hits : i <= j

\* cap.with !== expectedIssuerDid
ScopeMismatch(cap, expectedIssuerDid) == cap.with # expectedIssuerDid

\* mutant: now >= delegation.expiration
IsExpired_Inclusive(d, now) == d.expiration # 0 /\ now >= d.expiration

\* if (delegation.expiration) { if (now > delegation.expiration) ... }
\* 0 stands for every falsy expiration (0, undefined, null)
IsExpired(d, now) == d.expiration # 0 /\ now > d.expiration

\* mutant: the resource scope is checked before the issuer
verifyDelegation_ScopeFirst(d, expectedIssuerDid, expectedAbility, now) ==
    LET cap == FindCapability(d.capabilities, expectedAbility)
    IN  IF cap # 0 /\ ScopeMismatch(d.capabilities[cap], expectedIssuerDid)
          THEN Invalid("Resource scope mismatch")
        ELSE IF IssuerMismatch(d, expectedIssuerDid)
          THEN Invalid("Issuer mismatch")
        ELSE IF cap = 0
          THEN Invalid("Missing capability")
        ELSE IF IsExpired(d, now)
          THEN Invalid("Delegation expired")
        ELSE Valid

verifyDelegation(d, expectedIssuerDid, expectedAbility, now) ==
    LET cap == FindCapability(d.capabilities, expectedAbility)
    IN  IF IssuerMismatch(d, expectedIssuerDid)
          THEN Invalid("Issuer mismatch")
        ELSE IF cap = 0
          THEN Invalid("Missing capability")
        ELSE IF ScopeMismatch(d.capabilities[cap], expectedIssuerDid)
          THEN Invalid("Resource scope mismatch")
        ELSE IF IsExpired(d, now)
          THEN Invalid("Delegation expired")
        ELSE Valid

(***************************************************************************)
(* Serialization.  DelegationLib.archive writes the delegation (its body   *)
(* and its signature) as a byte archive and DelegationLib.extract reads it *)
(* back, answering {error} for bytes that are no archive; Buffer's base64  *)
(* turns every 3 bytes into 4 characters.  Bytes are numbers 0..255 and    *)
(* base64 characters are numbers 0..63, with Pad for '='.                  *)
(***************************************************************************)
DidCode(did) ==
    CASE did = "did:key:alice" -> 1 [] did = "did:key:bob" -> 2 [] did = "did:key:carol" -> 3
DidOfCode(b) == CHOOSE did \in Dids : DidCode(did) = b
AbilityCode(can) == CASE can = "agent/read" -> 1 [] can = "agent/write" -> 2
AbilityOfCode(b) == CHOOSE can \in Abilities : AbilityCode(can) = b

DidCodes == { DidCode(did) : did \in Dids }
AbilityCodes == { AbilityCode(can) : can \in Abilities }

\* the first byte of an archive
ArchiveMagic == 58

RECURSIVE EncodeCapabilities(_)
EncodeCapabilities(capabilities) ==
    IF capabilities = <<>>
      THEN <<>>
      ELSE << DidCode(Head(capabilities).with), AbilityCode(Head(capabilities).can) >>
             \o EncodeCapabilities(Tail(capabilities))

\* issuer, audience, the capability count and entries, the expiration as
\* two bytes, most significant first
EncodeBody(issuer, audience, capabilities, expiration) ==
    << DidCode(issuer), DidCode(audience), Len(capabilities) >>
        \o EncodeCapabilities(capabilities)
        \o << expiration \div 256, expiration % 256 >>

\* the bytes of a body that starts at position pos, or malformed
DecodeBody(bytes, pos) ==
    IF Len(bytes) < pos + 2 \/ Len(bytes) < pos + 4 + 2 * bytes[pos + 2]
      THEN [ok |-> FALSE]
    ELSE LET n == bytes[pos + 2]
             codesOk ==
                /\ bytes[pos] \in DidCodes
                /\ bytes[pos + 1] \in DidCodes
                /\ \A i \in 1..n :
                     /\ bytes[pos + 1 + 2 * i] \in DidCodes
                     /\ bytes[pos + 2 + 2 * i] \in AbilityCodes
         IN  IF ~codesOk
               THEN [ok |-> FALSE]
               ELSE [ok |-> TRUE,
                     issuer |-> DidOfCode(bytes[pos]),
                     audience |-> DidOfCode(bytes[pos + 1]),
                     capabilities |->
                        [i \in 1..n |-> [with |-> DidOfCode(bytes[pos + 1 + 2 * i]),
                                         can |-> AbilityOfCode(bytes[pos + 2 + 2 * i])]],
                     expiration |-> bytes[pos + 3 + 2 * n] * 256 + bytes[pos + 4 + 2 * n],
                     next |-> pos + 5 + 2 * n]

\* DelegationLib.archive(delegation)
archive(d) ==
    LET p == d.signature.payload
    IN  << ArchiveMagic >>
          \o EncodeBody(d.issuer, d.audience, d.capabilities, d.expiration)
          \o << DidCode(d.signature.signer) >>
          \o EncodeBody(p[1], p[2], p[3], p[4])

\* DelegationLib.extract(bytes): {ok: delegation} or {error}
extract(bytes) ==
    IF bytes = <<>> \/ bytes[1] # ArchiveMagic
      THEN [error |-> "not a CAR archive"]
    ELSE LET body == DecodeBody(bytes, 2)
         IN  IF ~body.ok \/ Len(bytes) < body.next \/ bytes[body.next] \notin DidCodes
               THEN [error |-> "malformed delegation"]
             ELSE LET signed == DecodeBody(bytes, body.next + 1)
                  IN  IF ~signed.ok \/ signed.next # Len(bytes) + 1
                        THEN [error |-> "malformed delegation"]
                        ELSE [error |-> "",
                              ok |-> [kind |-> "delegation",
                                      issuer |-> body.issuer,
                                      audience |-> body.audience,
                                      capabilities |-> body.capabilities,
                                      expiration |-> body.expiration,
                                      signature |->
                                        Sign(DidOfCode(bytes[body.next]),
                                             Payload(signed.issuer, signed.audience,
                                                     signed.capabilities,
                                                     signed.expiration))]]

\* UcanService.serializeDelegation: archive never fails on a delegation
serializeDelegation(d) == archive(d)

\* UcanService.deserializeDelegation: the delegation, or AuthenticationError
deserializeDelegation(bytes) ==
    LET r == extract(bytes)
    IN  IF r.error # ""
          THEN [error |-> "AuthenticationError", value |-> NoDelegation]
          ELSE [error |-> "", value |-> r.ok]

Pad == 64

\* Buffer.from(bytes).toString('base64')
RECURSIVE Base64Encode(_)
Base64Encode(bytes) ==
    IF Len(bytes) = 0 THEN <<>>
    ELSE IF Len(bytes) = 1
      THEN << bytes[1] \div 4, (bytes[1] % 4) * 16, Pad, Pad >>
    ELSE IF Len(bytes) = 2
      THEN << bytes[1] \div 4,
              (bytes[1] % 4) * 16 + bytes[2] \div 16,
              (bytes[2] % 16) * 4,
              Pad >>
    ELSE << bytes[1] \div 4,
            (bytes[1] % 4) * 16 + bytes[2] \div 16,
            (bytes[2] % 16) * 4 + bytes[3] \div 64,
            bytes[3] % 64 >>
           \o Base64Encode(SubSeq(bytes, 4, Len(bytes)))

\* mutant: the last, incomplete group of characters is dropped
RECURSIVE Base64Decode_DropsPartialGroup(_)
Base64Decode_DropsPartialGroup(text) ==
    IF Len(text) < 4 \/ text[3] = Pad \/ text[4] = Pad THEN <<>>
    ELSE << text[1] * 4 + text[2] \div 16,
            (text[2] % 16) * 16 + text[3] \div 4,
            (text[3] % 4) * 64 + text[4] >>
           \o Base64Decode_DropsPartialGroup(SubSeq(text, 5, Len(text)))

\* Buffer.from(text, 'base64'): decoding stops at the padding, and a
\* trailing group of fewer than 2 characters yields no byte
RECURSIVE Base64Decode(_)
Base64Decode(text) ==
    IF Len(text) < 2 \/ text[1] = Pad \/ text[2] = Pad THEN <<>>
    ELSE IF Len(text) = 2 \/ text[3] = Pad
      THEN << text[1] * 4 + text[2] \div 16 >>
    ELSE IF Len(text) = 3 \/ text[4] = Pad
      THEN << text[1] * 4 + text[2] \div 16,
              (text[2] % 16) * 16 + text[3] \div 4 >>
    ELSE << text[1] * 4 + text[2] \div 16,
            (text[2] % 16) * 16 + text[3] \div 4,
            (text[3] % 4) * 64 + text[4] >>
           \o Base64Decode(SubSeq(text, 5, Len(text)))

\* UcanService.delegationToBase64
delegationToBase64(d) == Base64Encode(serializeDelegation(d))

\* UcanService.delegationFromBase64
delegationFromBase64(base64) == deserializeDelegation(Base64Decode(base64))

(***************************************************************************)
(* Errors (src/src/lib/errors.ts).  An error is its class and its message; *)
(* a message is the sequence of the fragments it was concatenated from, so *)
(* that String.includes is a search for a fragment.                        *)
(***************************************************************************)
NoError == [kind |-> "none", message |-> <<>>]
Throw(kind, message) == [kind |-> kind, message |-> message]
Includes(message, fragment) == \E i \in 1..Len(message) : message[i] = fragment

MissingSpace == "missing current space"

\* the classes that extend AgentDbError
TypedErrors ==
    {"AuthenticationError", "NetworkError", "ValidationError", "StorageError",
     "ConcurrencyError"}

(***************************************************************************)
(* StorachaService.withRetry.  An operation is given by the error each of  *)
(* its invocations ends with (NoError when it resolves); a script says how *)
(* the network behaves during one call: the first `failures` invocations   *)
(* fail, every later one does what `then` says.                            *)
(***************************************************************************)
\* maxRetries = 3, the default every caller uses
MaxRetries == 3

\* the most consecutive failures a script holds
MaxFailures == 4

Scripts == [failures : 0..MaxFailures, then : {"ok", MissingSpace}]

\* scripts of calls that involve no storage space: gateway reads, name service
NetworkScripts == { s \in Scripts : s.then = "ok" }

Attempts == 1..(MaxFailures + 1)

\* under the script a request gets through before the retries run out
Reaches(script) == script.failures < MaxRetries

\* what the network does to the attempt-th invocation
AttemptError(script, attempt) ==
    IF attempt <= script.failures THEN Throw("Error", <<"fetch failed">>)
    ELSE IF script.then = "ok" THEN NoError
    ELSE Throw("Error", <<"failed upload: ", MissingSpace>>)

\* mutant of Exhausted: one attempt more
Exhausted_OneMore(attempt, maxRetries) == attempt > maxRetries

\* the retry budget is used up
Exhausted(attempt, maxRetries) == attempt >= maxRetries

\* the loop of withRetry, entered with `attempt` invocations already made;
\* answers the error thrown (NoError on return) and the invocations made
RECURSIVE withRetryFrom(_, _, _)
withRetryFrom(operation, attempt, maxRetries) ==
    IF Exhausted(attempt, maxRetries)
    THEN [error |-> Throw("NetworkError", <<"IPFS Operation failed permanently">>),
          calls |-> attempt]
    ELSE LET error == operation[attempt + 1]
         IN  IF error = NoError
             THEN [error |-> NoError, calls |-> attempt + 1]
             ELSE IF Includes(error.message, MissingSpace)
             THEN [error |-> error, calls |-> attempt + 1]
             ELSE IF Exhausted(attempt + 1, maxRetries)
             THEN [error |-> Throw("NetworkError",
                                   <<"IPFS operation failed after attempts: ">>
                                       \o error.message),
                   calls |-> attempt + 1]
             ELSE withRetryFrom(operation, attempt + 1, maxRetries)

withRetry(operation) == withRetryFrom(operation, 0, MaxRetries)

(***************************************************************************)
(* Content addresses.  An object of the store is a file name and its       *)
(* content (JSON or bytes); its CID is a digest of the object, and the     *)
(* address of the local fallback is the prefix bafybeis1m followed by a    *)
(* digest of the memory.                                                   *)
(***************************************************************************)
Contexts == {"ctx1", "ctx2"}

\* the payload storePublicMemory builds around a context
Memory(agent, context) == [agent_id |-> agent, context |-> context]

Null == [null |-> TRUE]

Digest(content) == <<"sha256", content>>
MemoryObject(memory) == [file |-> "memory.json", json |-> memory]
CarObject(bytes) == [file |-> "delegation.car", bytes |-> bytes]
Cid(object) == [prefix |-> "bafy", digest |-> Digest(object)]
MockCid(memory) == [prefix |-> "bafybeis1m", digest |-> Digest(memory)]

\* GET <gateway>/<cid>/<file>: the object, or Null when the gateway has none
GatewayGet(objects, cid, file) ==
    IF \E o \in objects : Cid(o) = cid /\ o.file = file
    THEN CHOOSE o \in objects : Cid(o) = cid /\ o.file = file
    ELSE Null

\* a file of the cache directory: <cid>.json and the JSON written in it
LocalFile(cid, memory) == [cid |-> cid, json |-> memory]

\* fs.writeFile(.agent_storage/<cid>.json, ...): a file of that name is
\* replaced
writeFile(cache, cid, memory) ==
    { f \in cache : f.cid # cid } \cup {LocalFile(cid, memory)}

\* mutant: the local file is looked up under the content address
LocalRead_ByContentAddress(cache, cid) ==
    IF \E f \in cache : Cid(MemoryObject(f.json)) = cid
    THEN (CHOOSE f \in cache : Cid(MemoryObject(f.json)) = cid).json
    ELSE Null

\* readFile(.agent_storage/<cid>.json): the memory, or Null when there is none
LocalRead(cache, cid) ==
    IF \E f \in cache : f.cid = cid
    THEN (CHOOSE f \in cache : f.cid = cid).json
    ELSE Null

(***************************************************************************)
(* StorachaService: the content store.  Each operator answers what the     *)
(* method throws or returns, the invocations of the underlying operation   *)
(* it made, and what it wrote.                                             *)
(***************************************************************************)
\* client.uploadDirectory under a script
UploadOperation(script) == [i \in Attempts |-> AttemptError(script, i)]

\* mutant: the fallback address is made from the payload and the number of
\* the attempt that fell back
uploadMemory_AttemptInAddress(memory, script) ==
    LET r == withRetry(UploadOperation(script))
        outcome(error, value, uploaded, cached) ==
            [error |-> error, value |-> value, calls |-> r.calls,
             uploaded |-> uploaded, cached |-> cached]
    IN  IF r.error = NoError
        THEN outcome(NoError, Cid(MemoryObject(memory)), TRUE, FALSE)
        ELSE IF Includes(r.error.message, MissingSpace)
        THEN outcome(NoError,
                     [prefix |-> "bafybeis1m",
                      digest |-> Digest([memory |-> memory, attempt |-> r.calls])],
                     FALSE, TRUE)
        ELSE outcome(r.error, Null, FALSE, FALSE)

uploadMemory(memory, script) ==
    LET r == withRetry(UploadOperation(script))
        outcome(error, value, uploaded, cached) ==
            [error |-> error, value |-> value, calls |-> r.calls,
             uploaded |-> uploaded, cached |-> cached]
    IN  IF r.error = NoError
        THEN outcome(NoError, Cid(MemoryObject(memory)), TRUE, FALSE)
        ELSE IF Includes(r.error.message, MissingSpace)
        THEN outcome(NoError, MockCid(memory), FALSE, TRUE)
        ELSE IF r.error.kind = "NetworkError"
        THEN outcome(r.error, Null, FALSE, FALSE)
        ELSE outcome(Throw("NetworkError",
                           <<"Failed to upload to IPFS: ">> \o r.error.message),
                     Null, FALSE, FALSE)

\* fetch(<gateway>/<cid>/memory.json) under a script
FetchOperation(objects, cid, script) ==
    [i \in Attempts |->
        IF AttemptError(script, i) # NoError THEN AttemptError(script, i)
        ELSE IF GatewayGet(objects, cid, "memory.json") = Null
        THEN Throw("NetworkError", <<"Gateway returned 404">>)
        ELSE NoError]

\* `gets` counts the reads issued: the local file and the gateway requests
fetchMemory(cid, script, objects, cache) ==
    LET mock == cid.prefix = "bafybeis1m"
        reads == IF mock THEN 1 ELSE 0
        hit == IF mock THEN LocalRead(cache, cid) ELSE Null
        r == withRetry(FetchOperation(objects, cid, script))
    IN  IF hit # Null
        THEN [value |-> hit, gets |-> reads]
        ELSE [value |-> IF r.error = NoError
                          THEN GatewayGet(objects, cid, "memory.json").json
                          ELSE Null,
              gets |-> reads + r.calls]

uploadRaw(data, filename, script) ==
    LET r == withRetry(UploadOperation(script))
        object == [file |-> filename, bytes |-> data]
    IN  [error |-> r.error,
         value |-> IF r.error = NoError THEN Cid(object) ELSE Null,
         calls |-> r.calls,
         uploaded |-> r.error = NoError]

publishDelegation(delegationBytes, script) ==
    LET r == withRetry(UploadOperation(script))
    IN  [error |-> r.error,
         value |-> IF r.error = NoError THEN Cid(CarObject(delegationBytes)) ELSE Null,
         calls |-> r.calls,
         uploaded |-> r.error = NoError]

(***************************************************************************)
(* StorachaService: mutable pointers.  A name is the key pair Name.create  *)
(* makes; a revision is the name, a sequence number and the value.  The    *)
(* name service keeps, per name, the revision published last, and takes a  *)
(* revision made for the name only when it is newer than the one it keeps. *)
(***************************************************************************)
Name(k) == [key |-> k]

v0(name, value) == [name |-> name, seq |-> 0, value |-> value]

\* mutant of increment: the sequence number stays
increment_SameSeq(revision, value) == [revision EXCEPT !.value = value]

increment(revision, value) == [revision EXCEPT !.seq = @ + 1, !.value = value]

\* Name.publish(revision, name.key) is taken by the service
PublishAccepted(latest, revision, name) ==
    /\ revision.name = name
    /\ latest = Null \/ revision.seq > latest.seq

IpfsPath(cid) == <<"/ipfs/", cid>>

publishToIpns(name, cid, previousRevision, script, latest) ==
    LET value == IpfsPath(cid)
        revision == IF previousRevision # Null
                      THEN increment(previousRevision, value)
                      ELSE v0(name, value)
        operation ==
            [i \in Attempts |->
                IF AttemptError(script, i) # NoError THEN AttemptError(script, i)
                ELSE IF PublishAccepted(latest, revision, name) THEN NoError
                ELSE Throw("Error", <<"publish rejected: revision is not newer">>)]
        r == withRetry(operation)
    IN  [error |-> r.error,
         value |-> IF r.error = NoError THEN revision ELSE Null,
         revision |-> revision,
         calls |-> r.calls]

\* Name.resolve(Name.parse(nameId)); every failure is answered with null
getLatestRevision(name, resolves, names) ==
    IF resolves THEN names[name.key] ELSE Null


\* mutant: the pointer is reported unresolvable
resolveIpns_Unresolved(name, resolves, names) == Null

\* the CID the name points at ('/ipfs/' stripped), or Null
resolveIpns(name, resolves, names) ==
    LET revision == getLatestRevision(name, resolves, names)
    IN  IF revision # Null THEN revision.value[2] ELSE Null

(***************************************************************************)
(* AgentRuntime: public memory and memory streams.                         *)
(***************************************************************************)
\* the errors the catch of storePublicMemory lets through or wraps
StoreCatch(error) ==
    IF error.kind = "ValidationError" THEN error
    ELSE Throw("StorageError", <<"Failed to store public memory: ">> \o error.message)

\* mutant: the memory is uploaded and recorded before the schema is applied
storePublicMemory_UploadFirst(agent, context, schemaOk, script) ==
    LET u == uploadMemory(Memory(agent, context), script)
    IN  IF u.error # NoError
        THEN [error |-> Throw("StorageError", u.error.message), value |-> Null,
              calls |-> u.calls, uploaded |-> FALSE, cached |-> FALSE,
              pushed |-> FALSE]
        ELSE [error |-> IF schemaOk THEN NoError
                        ELSE Throw("ValidationError",
                                   <<"Memory payload failed validation">>),
              value |-> IF schemaOk THEN u.value ELSE Null, calls |-> u.calls,
              uploaded |-> u.uploaded, cached |-> u.cached, pushed |-> TRUE]

\* `schemaOk` is the verdict of schema.safeParse (TRUE when no schema is given)
storePublicMemory(agent, context, schemaOk, script) ==
    LET u == uploadMemory(Memory(agent, context), script)
        thrown(error) ==
            [error |-> StoreCatch(error), value |-> Null, calls |-> 0,
             uploaded |-> FALSE, cached |-> FALSE, pushed |-> FALSE]
    IN  IF ~schemaOk
        THEN thrown(Throw("ValidationError", <<"Memory payload failed validation">>))
        ELSE IF u.error # NoError
        THEN [thrown(u.error) EXCEPT !.calls = u.calls]
        ELSE [error |-> NoError, value |-> u.value, calls |-> u.calls,
              uploaded |-> u.uploaded, cached |-> u.cached, pushed |-> TRUE]

\* the errors the catch of retrievePublicMemory lets through or wraps
RetrieveCatch(error) ==
    IF error.kind \in {"AuthenticationError", "StorageError"} THEN error
    ELSE Throw("NetworkError", <<"Failed to retrieve memory: ">> \o error.message)

\* mutant of retrievePublicMemory: the store is read before the delegation
\* is verified
retrievePublicMemory_FetchFirst(cid, token, now, script, objects, cache) ==
    LET f == fetchMemory(cid, script, objects, cache)
        denied == /\ token # NoDelegation
                  /\ ~verifyDelegation(token, token.issuer, "agent/read", now).valid
    IN  IF f.value = Null
        THEN [error |-> Throw("StorageError", <<"Memory CID not found">>),
              value |-> Null, gets |-> f.gets]
        ELSE IF denied
        THEN [error |-> Throw("AuthenticationError", <<"Authorization denied">>),
              value |-> Null, gets |-> f.gets]
        ELSE [error |-> NoError, value |-> f.value, gets |-> f.gets]

retrievePublicMemory(cid, token, now, script, objects, cache) ==
    LET verification ==
            IF token # NoDelegation
            THEN verifyDelegation(token, token.issuer, "agent/read", now)
            ELSE Valid
        f == fetchMemory(cid, script, objects, cache)
    IN  IF ~verification.valid
        THEN [error |-> RetrieveCatch(Throw("AuthenticationError",
                            <<"Authorization denied: ", verification.reason>>)),
              value |-> Null, gets |-> 0]
        ELSE IF f.value = Null
        THEN [error |-> RetrieveCatch(Throw("StorageError", <<"Memory CID not found">>)),
              value |-> Null, gets |-> f.gets]
        ELSE [error |-> NoError, value |-> f.value, gets |-> f.gets]

\* null when the pointer does not resolve, else the memory at its CID
fetchMemoryStream(name, token, now, resolves, script, names, objects, cache) ==
    LET currentCid == resolveIpns(name, resolves, names)
    IN  IF currentCid = Null
        THEN [error |-> NoError, value |-> Null, gets |-> 0]
        ELSE retrievePublicMemory(currentCid, token, now, script, objects, cache)

\* mutant of syncStream: the cached revision is kept
syncStream_KeepsCached(name, cached, resolved) == cached

\* the value of ipnsRevision after syncStream, `resolved` being what
\* getLatestRevision answered
syncStream(name, cached, resolved) ==
    IF name = Null THEN cached
    ELSE IF resolved # Null THEN resolved
    ELSE cached

(***************************************************************************)
(* AgentRuntime: the delegation ledgers.  A ledger is a Map from a DID to  *)
(* a delegation: a function whose domain is the keys set so far.           *)
(***************************************************************************)
\* mutant: an entry already in the map is kept
MapSet_KeepsFirst(map, key, value) ==
    [k \in DOMAIN map \cup {key} |-> IF k \in DOMAIN map THEN map[k] ELSE value]

\* Map.prototype.set
MapSet(map, key, value) ==
    [k \in DOMAIN map \cup {key} |-> IF k = key THEN value ELSE map[k]]

\* `ledger` is this.delegations; the answer carries the ledger the call leaves
delegateTo(signer, subAgent, ability, expirationHours, now, ledger) ==
    IF ~IssueParamsOk(signer, subAgent, ability, expirationHours)
    THEN [error |-> Throw("ValidationError", <<"Invalid UCAN delegation parameters">>),
          value |-> NoDelegation, delegations |-> ledger]
    ELSE LET d == issueDelegation(signer, subAgent, ability, expirationHours, now)
             audienceDid == IF subAgent.type = "string" THEN subAgent.did
                            ELSE subAgent.did
         IN  [error |-> NoError, value |-> d,
              delegations |-> MapSet(ledger, audienceDid, d)]

\* new Map(this.delegations)
getIssuedDelegations(ledger) == ledger

\* delegateTo, then the archive of the delegation is published
issueAndPublishDelegation(signer, subAgent, ability, expirationHours, now, ledger, script) ==
    LET d == delegateTo(signer, subAgent, ability, expirationHours, now, ledger)
        p == publishDelegation(serializeDelegation(d.value), script)
    IN  IF d.error # NoError
        THEN [error |-> d.error, delegation |-> NoDelegation, delegationCid |-> Null,
              delegations |-> d.delegations, uploaded |-> FALSE]
        ELSE IF p.error # NoError
        THEN [error |-> p.error, delegation |-> NoDelegation, delegationCid |-> Null,
              delegations |-> d.delegations, uploaded |-> FALSE]
        ELSE [error |-> NoError, delegation |-> d.value, delegationCid |-> p.value,
              delegations |-> d.delegations, uploaded |-> p.uploaded]

\* one GET of <cid>/delegation.car: the bytes, or Null when it fails
fetchDelegation(cid, answers, objects) ==
    IF answers /\ GatewayGet(objects, cid, "delegation.car") # Null
    THEN GatewayGet(objects, cid, "delegation.car").bytes
    ELSE Null

\* mutant: the delegation is filed before it is verified
fetchAndVerifyDelegation_StoresFirst(delegationCid, expectedIssuerDid, expectedAbility, now, answers, objects, received) ==
    LET carBytes == fetchDelegation(delegationCid, answers, objects)
        d == deserializeDelegation(carBytes)
        v == verifyDelegation(d.value, expectedIssuerDid, expectedAbility, now)
        filed == MapSet(received, expectedIssuerDid, d.value)
    IN  IF carBytes = Null
        THEN [error |-> NoError, value |-> Null, receivedDelegations |-> received]
        ELSE IF d.error # ""
        THEN [error |-> Throw(d.error, <<"Failed to deserialize delegation">>),
              value |-> Null, receivedDelegations |-> received]
        ELSE IF ~v.valid
        THEN [error |-> NoError, value |-> Null, receivedDelegations |-> filed]
        ELSE [error |-> NoError, value |-> d.value, receivedDelegations |-> filed]

\* `received` is this.receivedDelegations
fetchAndVerifyDelegation(delegationCid, expectedIssuerDid, expectedAbility, now, answers, objects, received) ==
    LET carBytes == fetchDelegation(delegationCid, answers, objects)
        d == deserializeDelegation(carBytes)
        v == verifyDelegation(d.value, expectedIssuerDid, expectedAbility, now)
    IN  IF carBytes = Null
        THEN [error |-> NoError, value |-> Null, receivedDelegations |-> received]
        ELSE IF d.error # ""
        THEN [error |-> Throw(d.error, <<"Failed to deserialize delegation">>),
              value |-> Null, receivedDelegations |-> received]
        ELSE IF ~v.valid
        THEN [error |-> NoError, value |-> Null, receivedDelegations |-> received]
        ELSE [error |-> NoError, value |-> d.value,
              receivedDelegations |-> MapSet(received, expectedIssuerDid, d.value)]

\* the catch answers null for whatever delegationFromBase64 throws
importDelegationFromApi(base64Token, expectedIssuerDid, expectedAbility, now, received) ==
    LET d == delegationFromBase64(base64Token)
        v == verifyDelegation(d.value, expectedIssuerDid, expectedAbility, now)
    IN  IF d.error # ""
        THEN [error |-> NoError, value |-> Null, receivedDelegations |-> received]
        ELSE IF ~v.valid
        THEN [error |-> NoError, value |-> Null, receivedDelegations |-> received]
        ELSE [error |-> NoError, value |-> d.value,
              receivedDelegations |-> MapSet(received, expectedIssuerDid, d.value)]

\* mutant: the delegation in the ledger is not verified again
retrieveWithDelegation_TrustsLedger(memoryCid, issuerDid, now, script, objects, cache, received) ==
    IF issuerDid \notin DOMAIN received
    THEN [value |-> Null, gets |-> 0]
    ELSE fetchMemory(memoryCid, script, objects, cache)

\* `received` is this.receivedDelegations
retrieveWithDelegation(memoryCid, issuerDid, now, script, objects, cache, received) ==
    IF issuerDid \notin DOMAIN received
    THEN [value |-> Null, gets |-> 0]
    ELSE IF ~verifyDelegation(received[issuerDid], issuerDid, "agent/read", now).valid
    THEN [value |-> Null, gets |-> 0]
    ELSE fetchMemory(memoryCid, script, objects, cache)

(***************************************************************************)
(* Identities derived from a seed (src/src/lib/ucan.ts).  A seed is a      *)
(* string, the sequence of its characters.  A hash is written as the       *)
(* digest of what was hashed and a public key as the key it belongs to:    *)
(* two hashes, or two public keys, are equal exactly when they were made   *)
(* from equal values.                                                      *)
(***************************************************************************)
\* Signer.derive(secret): the Ed25519 signer of a 32-byte secret, whose
\* did:key is its public key
SignerDerive(secret) ==
    [secret |-> secret, did |-> <<"did:key:", [public |-> secret]>>]

\* mutant: only the first character of the seed is hashed
createIdentityFromSeed_FirstCharacter(seed) ==
    SignerDerive(Digest(SubSeq(seed, 1, 1)))

createIdentityFromSeed(seed) == SignerDerive(Digest(seed))

createIdentityFromSignature(signature) == createIdentityFromSeed(signature)

\* AgentRuntime.loadFromSeed: a runtime around the signer
loadFromSeed(seed) == [signer |-> createIdentityFromSeed(seed)]

(***************************************************************************)
(* EncryptionService (src/src/lib/encryption.ts): ECDH on prime256v1, HKDF *)
(* and AES-256-GCM.  The secret two key pairs agree on is the pair of      *)
(* their private keys, the same from either side; a derived key is what it *)
(* was derived from; a ciphertext is the key, the nonce and the data it    *)
(* was made from; an authentication tag is the value it authenticates and  *)
(* its length.  The random values a call draws are an input of the call.   *)
(* Every byte string is a pair: what made it, and what it was made of.     *)
(***************************************************************************)
NoEnvelope == [kind |-> "none"]

\* buffer.toString('hex') and Buffer.from(text, 'hex')
Hex(bytes) == [hex |-> bytes]
FromHex(text) == text.hex

\* ecdh.getPublicKey()
EcPublic(privateKey) == <<"point", privateKey>>

\* mutant: the secret is made of the caller's own key alone
computeSecret_OwnKeyOnly(privateKey, publicKey) == {privateKey}

\* ecdh.computeSecret(publicKey)
computeSecret(privateKey, publicKey) == {privateKey, publicKey[2]}

\* crypto.hkdfSync('sha256', secret, salt, info, 32)
hkdfSync(secret, salt, info) == [secret |-> secret, salt |-> salt, info |-> info]

\* the length in bytes of the tag cipher.getAuthTag() returns
TagLength == 16

\* the tag lengths decipher.setAuthTag takes when createDecipheriv was given
\* no authTagLength
AcceptedTagLengths == {4, 8, 12, 13, 14, 15, 16}

\* decipher.setAuthTag(tag) does not throw
TagLengthOk(tag) == tag[2].length \in AcceptedTagLengths

\* cipher.update(data), cipher.final()
Seal(key, iv, data) ==
    <<"aes-256-gcm", [key |-> key, iv |-> iv, data |-> data, flipped |-> FALSE]>>

\* cipher.getAuthTag()
AuthTag(key, iv, ciphertext) ==
    <<"tag", [mac |-> <<key, iv, ciphertext>>, length |-> TagLength,
              flipped |-> FALSE]>>

\* decipher.final() authenticates: the bytes of the tag it was given are
\* the first bytes of the tag of the ciphertext under the key and the nonce
Authentic(tag, key, iv, ciphertext) ==
    ~tag[2].flipped /\ tag[2].mac = <<key, iv, ciphertext>>

\* crypto.randomBytes, generateKeys: the bytes of the n-th draw
RandomBytes(n) == <<"random", n>>

\* the random values of one encrypt call
Randoms == { [ephemeral |-> n, salt |-> n, iv |-> n] : n \in {1, 2} }

encrypt(data, recipientPublicKey, random) ==
    LET ephemeral == RandomBytes(random.ephemeral)
        sharedSecret == computeSecret(ephemeral, recipientPublicKey)
        salt == RandomBytes(random.salt)
        encryptionKey == hkdfSync(sharedSecret, salt, "agent-db-encryption")
        iv == RandomBytes(random.iv)
        ciphertext == Seal(encryptionKey, iv, data)
        tag == AuthTag(encryptionKey, iv, ciphertext)
    IN  [iv |-> Hex(iv),
         tag |-> Hex(tag),
         salt |-> Hex(salt),
         ephemeralPublicKey |-> Hex(EcPublic(ephemeral)),
         ciphertext |-> Hex(ciphertext)]

\* the decrypted Buffer in `value`, or what the call throws
decrypt(payload, privateKey) ==
    LET sharedSecret == computeSecret(privateKey, FromHex(payload.ephemeralPublicKey))
        encryptionKey == hkdfSync(sharedSecret, FromHex(payload.salt),
                                  "agent-db-encryption")
        iv == FromHex(payload.iv)
        tag == FromHex(payload.tag)
        ciphertext == FromHex(payload.ciphertext)
    IN  IF ~TagLengthOk(tag)
        THEN [error |-> Throw("Error", <<"Invalid authentication tag length">>),
              returned |-> FALSE, value |-> <<>>]
        ELSE IF ~Authentic(tag, encryptionKey, iv, ciphertext)
        THEN [error |-> Throw("Error", <<"Unsupported state or unable to authenticate data">>),
              returned |-> FALSE, value |-> <<>>]
        ELSE [error |-> NoError, returned |-> TRUE, value |-> ciphertext[2].data]

(***************************************************************************)
(* AgentRuntime: private memory.                                           *)
(***************************************************************************)
\* JSON.stringify(value) and JSON.parse(text)
JsonStringify(value) == [text |-> value]
JsonParse(text) == text.text

\* the randomness a signing call can draw on
Nonces == {1, 2}

\* mutant: a randomized signature, which the nonce is part of
Ed25519Sign_Randomized(secret, payload, nonce) ==
    Sign(secret, <<payload, nonce>>)

\* signer.signer.sign(payload): Ed25519 signs deterministically, the
\* randomness on hand plays no part
Ed25519Sign(secret, payload, nonce) == Sign(secret, <<payload>>)

\* the key pair whose private key is the hash of the signer's signature
\* over a constant
getEncryptionKey(signer, nonce) ==
    LET signature == Ed25519Sign(signer.secret, "agent-db-encryption-seed-v1", nonce)
        seed == Digest(signature)
    IN  [publicKey |-> EcPublic(seed), privateKey |-> seed]

\* the record uploaded for a private memory
PrivateMemory(payload) ==
    [encrypted |-> TRUE, encryptionMethod |-> "ECIES-P256-AES256GCM",
     payload |-> payload]

\* storePrivateMemory that writes the private key where the salt belongs
storePrivateMemory_KeyAsSalt(signer, context, nonce, random, script) ==
    LET key == getEncryptionKey(signer, nonce)
        encryptedPayload ==
            [encrypt(JsonStringify(context), key.publicKey, random)
                EXCEPT !.salt = Hex(key.privateKey)]
        u == uploadMemory(PrivateMemory(encryptedPayload), script)
    IN  [error |-> u.error, value |-> u.value, calls |-> u.calls,
         memory |-> PrivateMemory(encryptedPayload),
         uploaded |-> u.uploaded, cached |-> u.cached]

storePrivateMemory(signer, context, nonce, random, script) ==
    LET key == getEncryptionKey(signer, nonce)
        encryptedPayload == encrypt(JsonStringify(context), key.publicKey, random)
        u == uploadMemory(PrivateMemory(encryptedPayload), script)
    IN  [error |-> u.error, value |-> u.value, calls |-> u.calls,
         memory |-> PrivateMemory(encryptedPayload),
         uploaded |-> u.uploaded, cached |-> u.cached]

retrievePrivateMemory(signer, cid, nonce, script, objects, cache) ==
    LET data == fetchMemory(cid, script, objects, cache).value
        key == getEncryptionKey(signer, nonce)
        d == decrypt(data.payload, key.privateKey)
    IN  IF data = Null \/ "encrypted" \notin DOMAIN data \/ "payload" \notin DOMAIN data
        THEN [error |-> Throw("Error", <<"Invalid private memory payload or not encrypted.">>),
              value |-> Null]
        ELSE IF d.error # NoError
        THEN [error |-> d.error, value |-> Null]
        ELSE [error |-> NoError, value |-> JsonParse(d.value)]

(***************************************************************************)
(* The state machine.  UcanService has only static methods and keeps no    *)
(* state: the variables are those of its caller.  `delegation` is what the *)
(* caller obtained last (an issueDelegation that throws yields nothing),   *)
(* `result` what the last call made at the present instant returned.       *)
(***************************************************************************)
NoTransport == [kind |-> "none", bytes |-> <<>>]
NoResult == [op |-> "none"]

Init ==
    /\ clock = 0
    /\ delegation = NoDelegation
    /\ origin = "none"
    /\ transport = NoTransport
    /\ result = NoResult
    /\ ipfs = {}
    /\ localCache = {}
    /\ pointer = <<>>
    /\ memoryCids = [agent \in Signers |-> <<>>]
    /\ ipnsName = [agent \in Signers |-> Null]
    /\ ipnsRevision = [agent \in Signers |-> Null]
    /\ pending = [agent \in Signers |-> Null]
    /\ delegations = [agent \in Signers |-> <<>>]
    /\ receivedDelegations = [agent \in Signers |-> <<>>]
    /\ instances = <<>>
    /\ envelope = NoEnvelope

\* the instants at which the clock is observed: on the hour, later within
\* the same second, and one second later
ClockMarks ==
    { h * SecondsPerHour * MsPerSecond + f :
        h \in 0..MaxHours, f \in {0, MsPerSecond - 1, MsPerSecond} }

\* time passes
Tick ==
    /\ \E t \in ClockMarks : t > clock /\ clock' = t
    /\ result' = NoResult
    /\ UNCHANGED <<delegation, origin, transport>>
    /\ UNCHANGED agentVars

Alice == Principal("did:key:alice")
Bob == Principal("did:key:bob")

\* the arguments of the issueDelegation calls: every combination of valid
\* arguments, and the invalid ones around one valid call
IssueCalls ==
    LET call(i, a, c, h) ==
            [issuer |-> i, audience |-> a, ability |-> c, expirationHours |-> h]
        accepted ==
            { call(Principal(i), Principal(a), c, h) :
                i \in Signers, a \in {"did:key:bob", "did:key:carol"},
                c \in Abilities, h \in 1..MaxTtl }
        rejected ==
            { call(i, a, c, h) :
                i \in {Alice, Undefined},
                a \in {Bob, DidString("did:key:bob"), Undefined},
                c \in {"agent/read", ""},
                h \in {1, 0, -1} }
    IN  accepted \cup rejected

\* a call of UcanService.issueDelegation
IssueDelegation ==
    \E args \in IssueCalls :
        LET now == NowSeconds(clock)
            ok == IssueParamsOk(args.issuer, args.audience, args.ability,
                                args.expirationHours)
        IN  /\ result' = [op |-> "issueDelegation", args |-> args,
                          error |-> IF ok THEN "" ELSE "ValidationError"]
            /\ delegation' = IF ok
                               THEN issueDelegation(args.issuer, args.audience,
                                        args.ability, args.expirationHours, now)
                               ELSE NoDelegation
            /\ origin' = IF ok THEN "issued" ELSE "none"
            /\ UNCHANGED <<clock, transport>>
            /\ UNCHANGED agentVars

\* a call of UcanService.verifyDelegation on the delegation in hand
VerifyDelegation ==
    /\ delegation # NoDelegation
    /\ \E expectedIssuerDid \in Dids, expectedAbility \in Abilities :
        result' = [op |-> "verifyDelegation",
                   expectedIssuerDid |-> expectedIssuerDid,
                   expectedAbility |-> expectedAbility,
                   value |-> verifyDelegation(delegation, expectedIssuerDid,
                                              expectedAbility, NowSeconds(clock))]
    /\ UNCHANGED <<clock, delegation, origin, transport>>
    /\ UNCHANGED agentVars

(***************************************************************************)
(* Delegations that do not come from issueDelegation.  verifyDelegation    *)
(* takes `delegation: any`: a bearer token decoded from a request, or an   *)
(* archive fetched from the store, is whatever its sender made it.         *)
(***************************************************************************)
\* capability lists a principal can sign with delegate() directly: any
\* resource, one or two entries
CraftedCapabilities ==
    LET caps == { [with |-> w, can |-> c] : w \in Signers, c \in Abilities }
    IN  { <<c>> : c \in caps }
          \cup { p \in caps \X caps : p[1].can = p[2].can /\ p[1].with # p[2].with }

\* a principal signs, with its own key, a delegation of its own making
CraftDelegation ==
    /\ \E capabilities \in CraftedCapabilities, expiration \in {0, SecondsPerHour} :
        delegation' = delegate("did:key:bob", "did:key:carol", capabilities, expiration)
    /\ origin' = "crafted"
    /\ result' = [op |-> "delegate"]
    /\ UNCHANGED <<clock, transport>>
    /\ UNCHANGED agentVars

\* the holder of an issued delegation alters one field of its body and keeps
\* the signature it came with
TamperDelegation ==
    /\ origin = "issued"
    /\ \/ \E i \in Dids \ {delegation.issuer} :
            delegation' = [delegation EXCEPT !.issuer = i]
       \/ \E a \in Dids \ {delegation.audience} :
            delegation' = [delegation EXCEPT !.audience = a]
       \/ \E c \in Abilities \ {delegation.capabilities[1].can} :
            delegation' = [delegation EXCEPT !.capabilities[1].can = c]
       \/ \E w \in Dids \ {delegation.capabilities[1].with} :
            delegation' = [delegation EXCEPT !.capabilities[1].with = w]
       \/ \E e \in {0, delegation.expiration + SecondsPerHour} :
            delegation' = [delegation EXCEPT !.expiration = e]
    /\ origin' = "tampered"
    /\ result' = [op |-> "tamper"]
    /\ UNCHANGED <<clock, transport>>
    /\ UNCHANGED agentVars

(***************************************************************************)
(* Transport of a delegation: the archive or the base64 text in hand.      *)
(***************************************************************************)
\* a call of UcanService.serializeDelegation on the delegation in hand
SerializeDelegation ==
    /\ delegation # NoDelegation
    /\ transport' = [kind |-> "car", bytes |-> serializeDelegation(delegation)]
    /\ result' = [op |-> "serializeDelegation", error |-> ""]
    /\ UNCHANGED <<clock, delegation, origin>>
    /\ UNCHANGED agentVars

\* a call of UcanService.delegationToBase64 on the delegation in hand
DelegationToBase64 ==
    /\ delegation # NoDelegation
    /\ transport' = [kind |-> "base64", bytes |-> delegationToBase64(delegation)]
    /\ result' = [op |-> "delegationToBase64", error |-> ""]
    /\ UNCHANGED <<clock, delegation, origin>>
    /\ UNCHANGED agentVars

\* the archive or the text just produced is cut short on its way
TruncateTransport ==
    /\ result.op \in {"serializeDelegation", "delegationToBase64"}
    /\ \E n \in {Len(transport.bytes) - 1, Len(transport.bytes) \div 2} :
         transport' = [transport EXCEPT !.bytes = SubSeq(transport.bytes, 1, n)]
    /\ result' = [op |-> "truncate"]
    /\ UNCHANGED <<clock, delegation, origin>>
    /\ UNCHANGED agentVars

\* a call of UcanService.deserializeDelegation on the archive in hand
DeserializeDelegation ==
    /\ transport.kind = "car"
    /\ LET r == deserializeDelegation(transport.bytes)
       IN  result' = [op |-> "deserializeDelegation", error |-> r.error,
                      value |-> r.value]
    /\ UNCHANGED <<clock, delegation, origin, transport>>
    /\ UNCHANGED agentVars

\* a call of UcanService.delegationFromBase64 on the text in hand
DelegationFromBase64 ==
    /\ transport.kind = "base64"
    /\ LET r == delegationFromBase64(transport.bytes)
       IN  result' = [op |-> "delegationFromBase64", error |-> r.error,
                      value |-> r.value]
    /\ UNCHANGED <<clock, delegation, origin, transport>>
    /\ UNCHANGED agentVars

Next ==
    \/ Tick
    \/ IssueDelegation
    \/ VerifyDelegation
    \/ CraftDelegation
    \/ TamperDelegation

Spec == Init /\ [][Next]_vars

\* issuing, crafting and transporting delegations
NextTransport ==
    \/ IssueDelegation
    \/ CraftDelegation
    \/ SerializeDelegation
    \/ DelegationToBase64
    \/ TruncateTransport
    \/ DeserializeDelegation
    \/ DelegationFromBase64

SpecTransport == Init /\ [][NextTransport]_vars

(***************************************************************************)
(* The content store and the runtimes that use it.  The store, the local   *)
(* cache and the name service are shared; each identity runs one           *)
(* AgentRuntime.  The network's behaviour during a call is an input of the *)
(* call.                                                                   *)
(***************************************************************************)
\* the most memories one runtime stores
MaxCids == 2

\* the most IPNS names created
MaxNames == 1

\* the delegations presented with a read: none, the ones alice issued to
\* bob, and one bob signed over alice's resource
PresentedDelegations ==
    {NoDelegation}
      \cup { issueDelegation(Alice, Bob, c, 1, 0) : c \in Abilities }
      \cup { delegate("did:key:bob", "did:key:carol",
                      <<[with |-> "did:key:alice", can |-> "agent/read"]>>, 0) }

\* the runtime that stores the memories read back
Writers == {"did:key:alice"}

\* the addresses read: those a memory of a writer can have
ReadCids ==
    UNION { {Cid(MemoryObject(Memory(w, c))), MockCid(Memory(w, c))} :
              w \in Writers, c \in Contexts }

\* what a storePublicMemory that answered `s` wrote
StoreEffects(agent, context, s) ==
    /\ ipfs' = IF s.uploaded
                 THEN ipfs \cup {MemoryObject(Memory(agent, context))}
                 ELSE ipfs
    /\ localCache' = IF s.cached
                       THEN writeFile(localCache, s.value, Memory(agent, context))
                       ELSE localCache
    /\ memoryCids' = IF s.pushed
                       THEN [memoryCids EXCEPT ![agent] = Append(@, s.value)]
                       ELSE memoryCids

\* a call of agent.storePublicMemory(context, schema)
StorePublicMemory ==
    \E agent \in Writers, context \in Contexts, schemaOk \in BOOLEAN,
       script \in Scripts :
        /\ Len(memoryCids[agent]) < MaxCids
        /\ LET s == storePublicMemory(agent, context, schemaOk, script)
           IN  /\ StoreEffects(agent, context, s)
               /\ result' = [op |-> "storePublicMemory", agent |-> agent,
                             error |-> s.error.kind, value |-> s.value,
                             calls |-> s.calls,
                             wrote |-> s.uploaded \/ s.cached,
                             pushed |-> s.pushed]
        /\ UNCHANGED <<clock, delegation, origin, transport>>
        /\ UNCHANGED <<pointer, ipnsName, ipnsRevision, pending, ledgerVars, vaultVars>>

\* a call of agent.retrievePublicMemory(cid, delegation)
RetrievePublicMemory ==
    \E agent \in Signers, cid \in ReadCids, token \in PresentedDelegations,
       script \in NetworkScripts :
        /\ LET r == retrievePublicMemory(cid, token, NowSeconds(clock), script,
                                         ipfs, localCache)
           IN  result' = [op |-> "retrievePublicMemory", agent |-> agent,
                          cid |-> cid, delegation |-> token,
                          error |-> r.error.kind, value |-> r.value,
                          gets |-> r.gets, reached |-> Reaches(script)]
        /\ UNCHANGED <<clock, delegation, origin, transport>>
        /\ UNCHANGED agentVars

NextStore ==
    \/ StorePublicMemory
    \/ RetrievePublicMemory

SpecStore == Init /\ [][NextStore]_vars

(***************************************************************************)
(* The writes of StorachaService, called directly.                         *)
(***************************************************************************)
\* a call of StorachaService.withRetry on an upload
WithRetry ==
    /\ \E script \in Scripts :
        LET r == withRetry(UploadOperation(script))
        IN  result' = [op |-> "withRetry", script |-> script,
                       error |-> r.error.kind, calls |-> r.calls]
    /\ UNCHANGED <<clock, delegation, origin, transport>>
    /\ UNCHANGED agentVars

\* the archive published: alice's read delegation to bob
PublishedBytes == serializeDelegation(issueDelegation(Alice, Bob, "agent/read", 1, 0))

\* a call of StorachaService.publishDelegation(delegationBytes)
PublishDelegation ==
    /\ \E script \in Scripts :
        LET p == publishDelegation(PublishedBytes, script)
        IN  /\ ipfs' = IF p.uploaded THEN ipfs \cup {CarObject(PublishedBytes)} ELSE ipfs
            /\ result' = [op |-> "publishDelegation", script |-> script, error |-> p.error.kind,
                          message |-> p.error.message, value |-> p.value,
                          calls |-> p.calls]
    /\ UNCHANGED <<clock, delegation, origin, transport>>
    /\ UNCHANGED <<localCache, pointer, memoryCids, ipnsName, ipnsRevision, pending,
                   ledgerVars, vaultVars>>

\* the bytes uploaded raw
RawData == <<1, 2, 3>>

\* the names the bytes are uploaded under: uploadRaw takes any filename
RawNames == {"data.bin", "delegation.car"}

\* a call of StorachaService.uploadRaw(data, filename)
UploadRaw ==
    /\ \E filename \in RawNames, script \in Scripts :
        LET u == uploadRaw(RawData, filename, script)
        IN  /\ ipfs' = IF u.uploaded
                         THEN ipfs \cup {[file |-> filename, bytes |-> RawData]}
                         ELSE ipfs
            /\ result' = [op |-> "uploadRaw", script |-> script, error |-> u.error.kind,
                          filename |-> filename,
                          message |-> u.error.message, value |-> u.value,
                          calls |-> u.calls]
    /\ UNCHANGED <<clock, delegation, origin, transport>>
    /\ UNCHANGED <<localCache, pointer, memoryCids, ipnsName, ipnsRevision, pending,
                   ledgerVars, vaultVars>>

\* a call of StorachaService.uploadMemory(memory)
UploadMemory ==
    /\ \E agent \in Writers, context \in Contexts, script \in Scripts :
        LET memory == Memory(agent, context)
            u == uploadMemory(memory, script)
        IN  /\ ipfs' = IF u.uploaded THEN ipfs \cup {MemoryObject(memory)} ELSE ipfs
            /\ localCache' = IF u.cached
                               THEN writeFile(localCache, u.value, memory)
                               ELSE localCache
            /\ result' = [op |-> "uploadMemory", script |-> script, error |-> u.error.kind,
                          message |-> u.error.message, value |-> u.value,
                          calls |-> u.calls, memory |-> memory,
                          again |-> \E f \in localCache : f.json = memory]
    /\ UNCHANGED <<clock, delegation, origin, transport>>
    /\ UNCHANGED <<pointer, memoryCids, ipnsName, ipnsRevision, pending, ledgerVars, vaultVars>>

NextUpload ==
    \/ WithRetry
    \/ UploadMemory
    \/ PublishDelegation
    \/ UploadRaw

SpecUpload == Init /\ [][NextUpload]_vars

(***************************************************************************)
(* Memory streams.  updateMemoryStream awaits the name service twice, to   *)
(* resolve and to publish, and other runtimes run in between: the call is  *)
(* two steps, UpdateMemoryStream up to the stored memory and PublishUpdate *)
(* from there, with the call's local variables in `pending`.  A runtime    *)
(* makes one call at a time.                                               *)
(***************************************************************************)
\* the uploads of a stream call: the network is up, or down throughout
StreamScripts == { s \in NetworkScripts : s.failures \in {0, MaxRetries} }

\* the context a runtime streams next: each call writes a new one
NextContext(agent) ==
    IF Len(memoryCids[agent]) = 0 THEN "ctx1" ELSE "ctx2"

\* what a stream call that made no publish reports
StreamResult(op, agent, step, error, value) ==
    [op |-> op, agent |-> agent, step |-> step, error |-> error.kind,
     value |-> value, calls |-> 0, reached |-> FALSE, cached |-> Null,
     latestRevision |-> Null, latest |-> Null, revision |-> Null,
     stored |-> <<>>]

\* a call of agent.startMemoryStream(context)
StartMemoryStream ==
    \E agent \in Signers, script \in StreamScripts,
       publishScript \in NetworkScripts :
        /\ pending[agent] = Null
        /\ Len(memoryCids[agent]) < MaxCids
        /\ Len(pointer) < MaxNames
        /\ LET context == NextContext(agent)
               s == storePublicMemory(agent, context, TRUE, script)
               name == Name(Len(pointer) + 1)
               p == publishToIpns(name, s.value, Null, publishScript, Null)
           IN  /\ StoreEffects(agent, context, s)
               /\ IF s.error # NoError
                  THEN /\ UNCHANGED <<pointer, ipnsName, ipnsRevision>>
                       /\ result' = StreamResult("startMemoryStream", agent,
                                                 "store", s.error, Null)
                  ELSE /\ pointer' = Append(pointer, p.value)
                       /\ ipnsName' = [ipnsName EXCEPT ![agent] = name]
                       /\ ipnsRevision' =
                            IF p.error = NoError
                            THEN [ipnsRevision EXCEPT ![agent] = p.value]
                            ELSE ipnsRevision
                       /\ result' =
                            [StreamResult("startMemoryStream", agent, "publish",
                                          p.error,
                                          IF p.error = NoError THEN name ELSE Null)
                               EXCEPT !.calls = p.calls,
                                      !.reached = Reaches(publishScript),
                                      !.revision = p.revision]
        /\ UNCHANGED <<clock, delegation, origin, transport, pending, ledgerVars, vaultVars>>

\* a second runtime is given the name a first one writes to: ipnsName is a
\* public field
ShareStream ==
    \E owner \in Signers, agent \in Signers :
        /\ ipnsName[owner] # Null
        /\ ipnsName[agent] # ipnsName[owner]
        /\ pending[agent] = Null
        /\ ipnsName' = [ipnsName EXCEPT ![agent] = ipnsName[owner]]
        /\ result' = [op |-> "shareStream"]
        /\ UNCHANGED <<clock, delegation, origin, transport>>
        /\ UNCHANGED <<ipfs, localCache, pointer, memoryCids, ipnsRevision, pending,
                       ledgerVars, vaultVars>>

\* a call of agent.updateMemoryStream(newContext), up to the stored memory
UpdateMemoryStream ==
    \E agent \in Signers, resolves \in BOOLEAN, script \in StreamScripts :
        /\ pending[agent] = Null
        /\ Len(memoryCids[agent]) < MaxCids
        /\ IF ipnsName[agent] = Null
           THEN /\ result' = StreamResult("updateMemoryStream", agent, "guard",
                                 Throw("Error", <<"Cannot update memory stream: No stream started.">>),
                                 Null)
                /\ UNCHANGED agentVars
           ELSE LET latestRevision ==
                        getLatestRevision(ipnsName[agent], resolves, pointer)
                    synced == syncStream(ipnsName[agent], ipnsRevision[agent],
                                         latestRevision)
                    context == NextContext(agent)
                    s == storePublicMemory(agent, context, TRUE, script)
                IN  /\ ipnsRevision' = [ipnsRevision EXCEPT ![agent] = synced]
                    /\ StoreEffects(agent, context, s)
                    /\ pending' =
                         IF s.error = NoError
                         THEN [pending EXCEPT ![agent] =
                                 [cid |-> s.value, cached |-> ipnsRevision[agent],
                                  latestRevision |-> latestRevision,
                                  stored |-> memoryCids[agent]]]
                         ELSE pending
                    /\ result' =
                         [StreamResult("updateMemoryStream", agent, "store",
                                       s.error, Null)
                            EXCEPT !.cached = ipnsRevision[agent],
                                   !.latestRevision = latestRevision,
                                   !.stored = memoryCids[agent]]
                    /\ UNCHANGED <<pointer, ipnsName, ledgerVars, vaultVars>>
        /\ UNCHANGED <<clock, delegation, origin, transport>>

\* the rest of the call: publishToIpns and the assignment of ipnsRevision
PublishUpdate ==
    \E agent \in Signers, script \in NetworkScripts :
        /\ pending[agent] # Null
        /\ LET name == ipnsName[agent]
               latest == pointer[name.key]
               p == publishToIpns(name, pending[agent].cid, ipnsRevision[agent],
                                  script, latest)
           IN  /\ pointer' = IF p.error = NoError
                               THEN [pointer EXCEPT ![name.key] = p.value]
                               ELSE pointer
               /\ ipnsRevision' = IF p.error = NoError
                                    THEN [ipnsRevision EXCEPT ![agent] = p.value]
                                    ELSE ipnsRevision
               /\ result' =
                    [StreamResult("updateMemoryStream", agent, "publish", p.error,
                                  IF p.error = NoError THEN pending[agent].cid
                                  ELSE Null)
                       EXCEPT !.calls = p.calls,
                              !.reached = Reaches(script),
                              !.cached = pending[agent].cached,
                              !.latestRevision = pending[agent].latestRevision,
                              !.latest = latest,
                              !.revision = p.revision,
                              !.stored = pending[agent].stored]
        /\ pending' = [pending EXCEPT ![agent] = Null]
        /\ UNCHANGED <<clock, delegation, origin, transport>>
        /\ UNCHANGED <<ipfs, localCache, memoryCids, ipnsName, ledgerVars, vaultVars>>

\* a call of agent.fetchMemoryStream(ipnsNameId) by a follower
FetchMemoryStream ==
    \E agent \in Signers, key \in 1..Len(pointer), resolves \in BOOLEAN,
       script \in StreamScripts :
        /\ LET f == fetchMemoryStream(Name(key), NoDelegation, NowSeconds(clock),
                                      resolves, script, pointer, ipfs, localCache)
           IN  result' = [op |-> "fetchMemoryStream", agent |-> agent,
                          name |-> Name(key), error |-> f.error.kind,
                          value |-> f.value,
                          reached |-> resolves /\ Reaches(script)]
        /\ UNCHANGED <<clock, delegation, origin, transport>>
        /\ UNCHANGED agentVars

NextStream ==
    \/ StartMemoryStream
    \/ ShareStream
    \/ UpdateMemoryStream
    \/ PublishUpdate
    \/ FetchMemoryStream

SpecStream == Init /\ [][NextStream]_vars

(***************************************************************************)
(* syncStream called on its own.  Name.resolve is answered by an endpoint  *)
(* of the name service, and an endpoint that lags behind the latest        *)
(* publish answers a revision published earlier: of those, the ones some   *)
(* runtime still holds are tried.                                          *)
(***************************************************************************)
\* what Name.resolve can answer for the name: nothing, the latest revision,
\* or an earlier one
ResolveAnswers(name) ==
    {Null, pointer[name.key]}
      \cup { ipnsRevision[a] : a \in { b \in Signers : ipnsName[b] = name } }

\* a call of agent.syncStream()
SyncStream ==
    \E agent \in Signers :
        /\ pending[agent] = Null
        /\ \E latestRevision \in IF ipnsName[agent] = Null THEN {Null}
                                 ELSE ResolveAnswers(ipnsName[agent]) :
             /\ ipnsRevision' =
                  [ipnsRevision EXCEPT ![agent] =
                     syncStream(ipnsName[agent], @, latestRevision)]
             /\ result' = [op |-> "syncStream", agent |-> agent,
                           cached |-> ipnsRevision[agent],
                           latestRevision |-> latestRevision]
        /\ UNCHANGED <<clock, delegation, origin, transport>>
        /\ UNCHANGED <<ipfs, localCache, pointer, memoryCids, ipnsName, pending,
                       ledgerVars, vaultVars>>

NextSync ==
    \/ StartMemoryStream
    \/ ShareStream
    \/ UpdateMemoryStream
    \/ PublishUpdate
    \/ SyncStream

SpecSync == Init /\ [][NextSync]_vars

(***************************************************************************)
(* The delegation ledgers.  One runtime issues and publishes delegations,  *)
(* another receives them, as an archive fetched from the content store or  *)
(* as the base64 text of an API response.                                  *)
(***************************************************************************)
\* the runtime that receives delegations
Readers == {"did:key:bob"}

\* the arguments of the delegateTo calls: the audience as a signer, and
\* around one such call the audience as a DID string or missing, an empty
\* ability, no time to live
DelegateCalls ==
    LET call(a, c, h) == [audience |-> a, ability |-> c, expirationHours |-> h]
    IN  { call(a, c, 1) : a \in {Bob, Principal("did:key:carol")}, c \in Abilities }
          \cup { call(a, "agent/read", 1) : a \in {DidString("did:key:bob"), Undefined} }
          \cup { call(Bob, "", 1), call(Bob, "agent/read", 0) }

\* a call of agent.delegateTo(subAgent, ability, expirationHours)
DelegateTo ==
    \E agent \in Writers, args \in DelegateCalls :
        /\ LET r == delegateTo(Principal(agent), args.audience, args.ability,
                               args.expirationHours, NowSeconds(clock),
                               delegations[agent])
           IN  /\ delegations' = [delegations EXCEPT ![agent] = r.delegations]
               /\ delegation' = r.value
               /\ origin' = IF r.error = NoError THEN "issued" ELSE "none"
               /\ result' = [op |-> "delegateTo", agent |-> agent, args |-> args,
                             error |-> r.error.kind, value |-> r.value,
                             before |-> getIssuedDelegations(delegations[agent])]
        /\ UNCHANGED <<clock, transport, storeVars, receivedDelegations, vaultVars>>

\* the archives the content store serves
Cars == { o \in ipfs : o.file = "delegation.car" }

\* a call of agent.issueAndPublishDelegation(subAgent, ability, expirationHours)
IssueAndPublishDelegation ==
    \E agent \in Writers, args \in DelegateCalls, script \in StreamScripts :
        /\ Cardinality(Cars) < MaxCids
        /\ LET r == issueAndPublishDelegation(Principal(agent), args.audience,
                        args.ability, args.expirationHours, NowSeconds(clock),
                        delegations[agent], script)
           IN  /\ delegations' = [delegations EXCEPT ![agent] = r.delegations]
               /\ ipfs' = IF r.uploaded
                            THEN ipfs \cup {CarObject(serializeDelegation(r.delegation))}
                            ELSE ipfs
               /\ delegation' = r.delegation
               /\ origin' = IF r.error = NoError THEN "issued" ELSE "none"
               /\ result' = [op |-> "issueAndPublishDelegation", agent |-> agent,
                             args |-> args, error |-> r.error.kind,
                             value |-> r.delegationCid]
        /\ UNCHANGED <<clock, transport, receivedDelegations, vaultVars>>
        /\ UNCHANGED <<localCache, pointer, memoryCids, ipnsName, ipnsRevision, pending>>

\* the identifiers a receiver expects the issuer to have
ExpectedIssuers == {"did:key:alice", "did:key:bob"}

\* a call of agent.fetchAndVerifyDelegation(cid, expectedIssuerDid, expectedAbility)
FetchAndVerifyDelegation ==
    \E agent \in Readers, car \in Cars, expectedIssuerDid \in ExpectedIssuers,
       expectedAbility \in Abilities, answers \in BOOLEAN :
        /\ LET r == fetchAndVerifyDelegation(Cid(car), expectedIssuerDid,
                        expectedAbility, NowSeconds(clock), answers, ipfs,
                        receivedDelegations[agent])
           IN  /\ receivedDelegations' =
                    [receivedDelegations EXCEPT ![agent] = r.receivedDelegations]
               /\ result' = [op |-> "fetchAndVerifyDelegation", agent |-> agent,
                             token |-> car.bytes, fetched |-> answers,
                             expectedIssuerDid |-> expectedIssuerDid,
                             expectedAbility |-> expectedAbility,
                             error |-> r.error.kind, value |-> r.value,
                             before |-> receivedDelegations[agent]]
        /\ UNCHANGED <<clock, delegation, origin, transport, storeVars, delegations,
                       vaultVars>>

\* a call of agent.importDelegationFromApi(base64Token, expectedIssuerDid,
\* expectedAbility) on the text in hand
ImportDelegationFromApi ==
    \E agent \in Readers, expectedIssuerDid \in ExpectedIssuers,
       expectedAbility \in Abilities :
        /\ transport.kind = "base64"
        /\ LET r == importDelegationFromApi(transport.bytes, expectedIssuerDid,
                        expectedAbility, NowSeconds(clock),
                        receivedDelegations[agent])
           IN  /\ receivedDelegations' =
                    [receivedDelegations EXCEPT ![agent] = r.receivedDelegations]
               /\ result' = [op |-> "importDelegationFromApi", agent |-> agent,
                             token |-> Base64Decode(transport.bytes), fetched |-> TRUE,
                             expectedIssuerDid |-> expectedIssuerDid,
                             expectedAbility |-> expectedAbility,
                             error |-> r.error.kind, value |-> r.value,
                             before |-> receivedDelegations[agent]]
        /\ UNCHANGED <<clock, delegation, origin, transport, storeVars, delegations,
                       vaultVars>>

\* a call of agent.retrieveWithDelegation(memoryCid, issuerDid)
RetrieveWithDelegation ==
    \E agent \in Readers, memoryCid \in ReadCids, issuerDid \in ExpectedIssuers,
       script \in StreamScripts :
        /\ LET r == retrieveWithDelegation(memoryCid, issuerDid, NowSeconds(clock),
                        script, ipfs, localCache, receivedDelegations[agent])
           IN  result' = [op |-> "retrieveWithDelegation", agent |-> agent,
                          memoryCid |-> memoryCid, issuerDid |-> issuerDid,
                          reached |-> Reaches(script),
                          value |-> r.value, gets |-> r.gets]
        /\ UNCHANGED <<clock, delegation, origin, transport, agentVars>>

\* delegations handed over through the content store
NextLedger ==
    \/ DelegateTo
    \/ IssueAndPublishDelegation
    \/ FetchAndVerifyDelegation

SpecLedger == Init /\ [][NextLedger]_vars

\* delegations handed over as the text of an API response
NextApi ==
    \/ DelegateTo
    \/ DelegationToBase64
    \/ TruncateTransport
    \/ ImportDelegationFromApi

SpecApi == Init /\ [][NextApi]_vars

\* delegations issued, published, and received either way
NextReceive ==
    \/ IssueAndPublishDelegation
    \/ FetchAndVerifyDelegation
    \/ DelegationToBase64
    \/ ImportDelegationFromApi

SpecReceive == Init /\ [][NextReceive]_vars

\* archives fetched from a store anyone uploads to
NextFetch ==
    \/ PublishDelegation
    \/ UploadRaw
    \/ FetchAndVerifyDelegation

SpecFetch == Init /\ [][NextFetch]_vars

\* memories read with a delegation fetched earlier, while time passes
NextRetrieve ==
    \/ Tick
    \/ PublishDelegation
    \/ UploadMemory
    \/ FetchAndVerifyDelegation
    \/ RetrieveWithDelegation

SpecRetrieve == Init /\ [][NextRetrieve]_vars


(***************************************************************************)
(* Identities and private memory.  Every derivation of an identity is a    *)
(* call of its own, in whatever process: `instances` lists them.  A        *)
(* runtime is an instance made by loadFromSeed.                            *)
(***************************************************************************)
\* this many identities are derived
MaxInstances == 3
\* the longest plaintext given to encrypt
MaxPlaintext == 2
\* this many private memories are stored
MaxPrivate == 1

\* seed phrases and wallet signatures
Seeds == {<<"a">>, <<"a", "b">>}

\* the identity a call returned joins the instances
Derived(via, seed, signer) ==
    /\ instances' = Append(instances, [via |-> via, seed |-> seed, signer |-> signer])
    /\ result' = [op |-> via, seed |-> seed, value |-> signer.did]

\* a call of UcanService.createIdentityFromSeed(seed)
CreateIdentityFromSeed ==
    \E seed \in Seeds :
        /\ Len(instances) < MaxInstances
        /\ Derived("createIdentityFromSeed", seed, createIdentityFromSeed(seed))
        /\ UNCHANGED <<clock, delegation, origin, transport, storeVars, ledgerVars,
                       envelope>>

\* a call of UcanService.createIdentityFromSignature(signature)
CreateIdentityFromSignature ==
    \E signature \in Seeds :
        /\ Len(instances) < MaxInstances
        /\ Derived("createIdentityFromSignature", signature,
                   createIdentityFromSignature(signature))
        /\ UNCHANGED <<clock, delegation, origin, transport, storeVars, ledgerVars,
                       envelope>>

\* a call of AgentRuntime.loadFromSeed(seed)
LoadFromSeed ==
    \E seed \in Seeds :
        /\ Len(instances) < MaxInstances
        /\ Derived("loadFromSeed", seed, loadFromSeed(seed).signer)
        /\ UNCHANGED <<clock, delegation, origin, transport, storeVars, ledgerVars,
                       envelope>>

NextIdentity ==
    \/ CreateIdentityFromSeed
    \/ CreateIdentityFromSignature
    \/ LoadFromSeed

SpecIdentity == Init /\ [][NextIdentity]_vars

\* the runtimes loaded so far
Runtimes == { i \in 1..Len(instances) : instances[i].via = "loadFromSeed" }

\* the plaintexts: a byte string of every length up to the longest
Plaintexts ==
    { [i \in 1..n |-> 104 + i] : n \in 0..MaxPlaintext }

\* a call of EncryptionService.encrypt(data, publicKey) with the public key
\* of a runtime
Encrypt ==
    \E i \in Runtimes, data \in Plaintexts, nonce \in Nonces, random \in Randoms :
        /\ envelope' =
             [kind |-> "envelope", recipient |-> i, data |-> data, altered |-> "",
              payload |->
                 encrypt(data, getEncryptionKey(instances[i].signer, nonce).publicKey,
                         random)]
        /\ result' = [op |-> "encrypt"]
        /\ UNCHANGED <<clock, delegation, origin, transport, storeVars, ledgerVars,
                       instances>>

\* random bytes other than the ones drawn
Other(bytes) == RandomBytes(3 - bytes[2])

\* one field of the envelope in hand is altered on its way
TamperEnvelope ==
    /\ envelope # NoEnvelope
    /\ envelope.altered = ""
    /\ LET p == envelope.payload
           tag == FromHex(p.tag)
       IN  \E field \in {"iv", "salt", "ephemeralPublicKey", "ciphertext", "tag",
                         "tag length"} :
             envelope' =
               [envelope EXCEPT
                  !.altered = field,
                  !.payload =
                     CASE field = "iv" -> [p EXCEPT !.iv = Hex(Other(FromHex(p.iv)))]
                       [] field = "salt" -> [p EXCEPT !.salt = Hex(Other(FromHex(p.salt)))]
                       [] field = "ephemeralPublicKey" ->
                            [p EXCEPT !.ephemeralPublicKey =
                               Hex(EcPublic(Other(FromHex(p.ephemeralPublicKey)[2])))]
                       [] field = "ciphertext" ->
                            [p EXCEPT !.ciphertext =
                               Hex([FromHex(p.ciphertext) EXCEPT ![2].flipped = TRUE])]
                       [] field = "tag" ->
                            [p EXCEPT !.tag = Hex([tag EXCEPT ![2].flipped = TRUE])]
                       [] field = "tag length" ->
                            [p EXCEPT !.tag =
                               Hex([tag EXCEPT ![2].length = 4])]]
    /\ result' = [op |-> "tamper"]
    /\ UNCHANGED <<clock, delegation, origin, transport, storeVars, ledgerVars,
                   instances>>

\* a call of EncryptionService.decrypt(payload, privateKey) with the private
\* key of a runtime
Decrypt ==
    \E i \in Runtimes, nonce \in Nonces :
        /\ envelope # NoEnvelope
        /\ LET d == decrypt(envelope.payload,
                            getEncryptionKey(instances[i].signer, nonce).privateKey)
           IN  result' = [op |-> "decrypt", instance |-> i, error |-> d.error.kind,
                          returned |-> d.returned, value |-> d.value]
        /\ UNCHANGED <<clock, delegation, origin, transport, agentVars>>

NextCipher ==
    \/ LoadFromSeed
    \/ Encrypt
    \/ TamperEnvelope
    \/ Decrypt

SpecCipher == Init /\ [][NextCipher]_vars

\* the private contexts stored
PrivateContexts == { [note |-> c] : c \in Contexts }

\* the network during an upload: up, without a space, or down
VaultScripts == { s \in Scripts : s.failures \in {0, MaxRetries} }

\* the random values drawn while a private memory is stored
VaultRandoms == { r \in Randoms : r.ephemeral = 1 }

\* a call of runtime.storePrivateMemory(context)
StorePrivateMemory ==
    \E i \in Runtimes, context \in PrivateContexts, nonce \in Nonces,
       random \in VaultRandoms, script \in VaultScripts :
        /\ Cardinality(ipfs) + Cardinality(localCache) < MaxPrivate
        /\ LET s == storePrivateMemory(instances[i].signer, context, nonce, random,
                                       script)
           IN  /\ ipfs' = IF s.uploaded THEN ipfs \cup {MemoryObject(s.memory)}
                            ELSE ipfs
               /\ localCache' = IF s.cached
                                  THEN writeFile(localCache, s.value, s.memory)
                                  ELSE localCache
               /\ result' = [op |-> "storePrivateMemory", instance |-> i,
                             context |-> context, error |-> s.error.kind,
                             value |-> s.value]
        /\ UNCHANGED <<clock, delegation, origin, transport, ledgerVars, vaultVars>>
        /\ UNCHANGED <<pointer, memoryCids, ipnsName, ipnsRevision, pending>>

\* the addresses storePrivateMemory has returned
PrivateCids ==
    { Cid(o) : o \in ipfs } \cup { f.cid : f \in localCache }

\* a call of runtime.retrievePrivateMemory(cid)
RetrievePrivateMemory ==
    \E i \in Runtimes, cid \in PrivateCids, nonce \in Nonces,
       script \in StreamScripts :
        /\ LET r == retrievePrivateMemory(instances[i].signer, cid, nonce, script,
                                          ipfs, localCache)
           IN  result' = [op |-> "retrievePrivateMemory", instance |-> i,
                          cid |-> cid, reached |-> Reaches(script),
                          error |-> r.error.kind, value |-> r.value]
        /\ UNCHANGED <<clock, delegation, origin, transport, agentVars>>

NextVault ==
    \/ LoadFromSeed
    \/ StorePrivateMemory
    \/ RetrievePrivateMemory

SpecVault == Init /\ [][NextVault]_vars

(***************************************************************************)
(* Properties of issueDelegation and verifyDelegation.                     *)
(***************************************************************************)
Verified == result.op = "verifyDelegation"
Issued == result.op = "issueDelegation"
Now == NowSeconds(clock)

\* the ability of the single capability issueDelegation puts in a delegation
IssuedAbility == delegation.capabilities[1].can

\* some entry of the delegation in hand grants the ability
Grants(ability) ==
    \E i \in 1..Len(delegation.capabilities) : delegation.capabilities[i].can = ability

\* C1: a delegation returned by issueDelegation, verified against its
\* issuer's own identifier and its own ability at any time up to its
\* expiration, is reported valid.
C1_IssuedVerifies ==
    ( /\ Verified
      /\ origin = "issued"
      /\ result.expectedIssuerDid = delegation.issuer
      /\ result.expectedAbility = IssuedAbility
      /\ Now <= delegation.expiration )
    => result.value = Valid

\* an issued delegation is reported valid in the very second it expires
C1_Witness ==
    /\ Verified
    /\ origin = "issued"
    /\ Now = delegation.expiration
    /\ result.expectedIssuerDid = delegation.issuer
    /\ result.expectedAbility = IssuedAbility
    /\ result.value = Valid

\* C2: a token whose body was altered after it was signed is never reported
\* valid (the claim as stated; verifyDelegation has no signature check).
C2_AlteredNeverValid ==
    (Verified /\ ~SignatureValid(delegation)) => ~result.value.valid

\* the outcome the claimed order of checks gives: signature, issuer,
\* capability, resource scope, expiration
ClaimedOutcome(d, expectedIssuerDid, expectedAbility, now) ==
    IF ~SignatureValid(d)
      THEN Invalid("Invalid signature")
      ELSE verifyDelegation(d, expectedIssuerDid, expectedAbility, now)

\* C3: the reason reported is that of the first failing check in the order
\* signature, issuer, capability, resource scope, expiration (the claim as
\* stated).
C3_FirstFailingCheck ==
    Verified =>
        result.value = ClaimedOutcome(delegation, result.expectedIssuerDid,
                                      result.expectedAbility, Now)

\* C4: verification against an expected issuer other than the delegation's
\* issuer is rejected as an issuer mismatch, whatever the ability asked for
\* and whether or not the delegation has expired.
C4_IssuerMismatch ==
    (Verified /\ result.expectedIssuerDid # delegation.issuer)
    => result.value = Invalid("Issuer mismatch")

\* an expired delegation that also lacks the ability asked for, checked
\* against a wrong issuer, is reported as an issuer mismatch
C4_Witness ==
    /\ Verified
    /\ result.expectedIssuerDid # delegation.issuer
    /\ ~Grants(result.expectedAbility)
    /\ delegation.expiration # 0 /\ Now > delegation.expiration
    /\ result.value = Invalid("Issuer mismatch")

\* C5: verification against the true issuer with an ability none of the
\* delegation's entries grants is rejected as a missing capability.
C5_MissingCapability ==
    ( /\ Verified
      /\ result.expectedIssuerDid = delegation.issuer
      /\ ~Grants(result.expectedAbility) )
    => result.value = Invalid("Missing capability")

\* an expired delegation checked for an ability it lacks: missing capability
C5_Witness ==
    /\ Verified
    /\ result.expectedIssuerDid = delegation.issuer
    /\ ~Grants(result.expectedAbility)
    /\ delegation.expiration # 0 /\ Now > delegation.expiration
    /\ result.value = Invalid("Missing capability")

\* the delegation in hand passes the issuer, capability and scope checks
PassesUpToScope(expectedIssuerDid, expectedAbility) ==
    /\ delegation.issuer = expectedIssuerDid
    /\ Grants(expectedAbility)
    /\ LET cap == FindCapability(delegation.capabilities, expectedAbility)
       IN  delegation.capabilities[cap].with = expectedIssuerDid

\* C6: a token that passes the issuer, capability and scope checks is valid
\* exactly when now <= expiration (the claim as stated).
C6_ValidIffNotExpired ==
    (Verified /\ PassesUpToScope(result.expectedIssuerDid, result.expectedAbility))
    => (result.value.valid <=> Now <= delegation.expiration)

\* C7: issueDelegation with a TTL of 0 (and otherwise valid arguments)
\* succeeds and returns a token (the claim as stated).
C7_ZeroTtlIssues ==
    ( /\ Issued
      /\ result.args.expirationHours = 0
      /\ IssueParamsOk(result.args.issuer, result.args.audience, result.args.ability, 1) )
    => (result.error = "" /\ delegation # NoDelegation)

C9_ScopeMismatchReported ==
    ( /\ Verified
      /\ origin = "issued"
      /\ result.expectedIssuerDid # delegation.issuer )
    => result.value = Invalid("Resource scope mismatch")

\* C9 amended: such a delegation is rejected at the issuer check, as an
\* issuer mismatch, and an issued delegation is never rejected at the
\* resource-scope check.
C9_IssuerCheckRejects ==
    (Verified /\ origin = "issued")
    => /\ result.expectedIssuerDid # delegation.issuer
            => result.value = Invalid("Issuer mismatch")
       /\ result.value.reason # "Resource scope mismatch"

\* A's unexpired read delegation presented under another issuer's scope
C9_Witness ==
    /\ Verified
    /\ origin = "issued"
    /\ result.expectedIssuerDid # delegation.issuer
    /\ delegation.capabilities[1].with # result.expectedIssuerDid
    /\ result.expectedAbility = IssuedAbility
    /\ Now <= delegation.expiration
    /\ result.value = Invalid("Issuer mismatch")

(***************************************************************************)
(* Properties of the transport.                                            *)
(***************************************************************************)
\* the seconds at which a verification may take place
VerificationTimes == { NowSeconds(t) : t \in ClockMarks }

\* d1 and d2 verify identically: for every expected issuer, ability and time
VerifyIdentically(d1, d2) ==
    \A expectedIssuerDid \in Dids, expectedAbility \in Abilities, now \in VerificationTimes :
        verifyDelegation(d1, expectedIssuerDid, expectedAbility, now)
            = verifyDelegation(d2, expectedIssuerDid, expectedAbility, now)

\* the call just made decoded the untouched serialization of the delegation
\* in hand
DecodedArchive ==
    /\ result.op = "deserializeDelegation"
    /\ delegation # NoDelegation
    /\ transport.bytes = serializeDelegation(delegation)
DecodedBase64 ==
    /\ result.op = "delegationFromBase64"
    /\ delegation # NoDelegation
    /\ transport.bytes = delegationToBase64(delegation)

\* C10: the delegation obtained by serializing d and deserializing it again,
\* as an archive and as base64 text, is obtained without error and verifies
\* as d does for every expected issuer, ability and time.
C10_RoundTripVerifiesIdentically ==
    (DecodedArchive \/ DecodedBase64)
    => (result.error = "" /\ VerifyIdentically(result.value, delegation))

\* a delegation with two capability entries and no expiry came back from
\* base64 text and is accepted as the original is
C10_Witness ==
    /\ DecodedBase64
    /\ result.error = ""
    /\ Len(result.value.capabilities) = 2
    /\ \E expectedAbility \in Abilities :
         verifyDelegation(result.value, delegation.issuer, expectedAbility, 1) = Valid

(***************************************************************************)
(* Properties of retrievePublicMemory.                                     *)
(***************************************************************************)
Retrieved == result.op = "retrievePublicMemory"

\* the delegation presented with the read does not verify for agent/read
FailsVerification(token) ==
    /\ token # NoDelegation
    /\ ~verifyDelegation(token, token.issuer, "agent/read", Now).valid

C12_NonOwnerNeedsOwnerDelegation ==
    Retrieved /\ result.value # Null /\ result.agent # result.value.agent_id =>
        /\ result.delegation # NoDelegation
        /\ verifyDelegation(result.delegation, result.value.agent_id,
                            "agent/read", Now).valid

\* C19: a retrievePublicMemory whose gateway requests all fail, to the last
\* retry, throws NetworkError.
C19_ExhaustedGetIsNetworkError ==
    Retrieved /\ ~result.reached /\ result.gets >= MaxRetries =>
        result.error = "NetworkError"

(***************************************************************************)
(* Properties of withRetry and of the writes built on it.                  *)
(***************************************************************************)
Retried == result.op = "withRetry"
Wrote == result.op \in {"uploadMemory", "publishDelegation", "uploadRaw"}

\* C17: withRetry invokes the operation at most MaxRetries (3) times; when
\* an invocation succeeds within the budget it returns at that invocation,
\* the first success; when MaxRetries invocations fail with a retryable
\* error it throws NetworkError.  The writes built on it make no more
\* invocations either.
C17_RetryBounded ==
    /\ Retried \/ Wrote => result.calls <= MaxRetries
    /\ Retried /\ result.script.then = "ok" /\ Reaches(result.script) =>
          /\ result.error = "none"
          /\ result.calls = result.script.failures + 1
    /\ Retried /\ ~Reaches(result.script) =>
          /\ result.error = "NetworkError"
          /\ result.calls = MaxRetries

\* every one of the MaxRetries invocations failed
C17_Witness ==
    /\ Retried
    /\ result.script.failures > MaxRetries
    /\ result.error = "NetworkError"
    /\ result.calls = MaxRetries

\* the write's first invocation fails for want of a storage space
NoSpaceConfigured == result.script.failures = 0 /\ result.script.then = MissingSpace

\* C18: a write of the content store (uploadMemory, publishDelegation,
\* uploadRaw) that fails because no storage space is configured is invoked
\* once, throws nothing and returns the local fallback address.
C18_MissingSpaceFallsBack ==
    Wrote /\ NoSpaceConfigured =>
        /\ result.calls = 1
        /\ result.error = "none"
        /\ result.value # Null
        /\ result.value.prefix = "bafybeis1m"

(***************************************************************************)
(* Properties of memory streams.  `result` of a publish step holds the     *)
(* call's view: `cached` is ipnsRevision when the call began,              *)
(* `latestRevision` what its resolve answered, `latest` what the name      *)
(* service held when the publish arrived, `revision` what was published,   *)
(* `stored` is memoryCids when the call began.                             *)
(***************************************************************************)
UpdatePublished ==
    result.op = "updateMemoryStream" /\ result.step = "publish"

\* the name service refused the revision of the call
Rejected ==
    ~PublishAccepted(result.latest, result.revision, ipnsName[result.agent])

\* the resolve of the call succeeded and another writer published after it
Superseded ==
    /\ result.latestRevision # Null
    /\ result.latest # result.latestRevision

\* C13: an updateMemoryStream whose publish chains from a revision that
\* another writer superseded between its resolve and its publish throws
\* ConcurrencyError, and the other writer's revision stays the latest.
C13_SupersededIsConcurrencyError ==
    UpdatePublished /\ Superseded =>
        /\ result.error = "ConcurrencyError"
        /\ pointer[ipnsName[result.agent].key] = result.latest

\* C14: a publish the name service rejects for a conflicting revision is
\* invoked once within the updateMemoryStream call.
C14_RejectedPublishedOnce ==
    UpdatePublished /\ result.reached /\ Rejected => result.calls = 1

\* C15: an updateMemoryStream that begins with the revision returned by
\* the runtime's preceding publish cached, no other writer having published
\* since, and whose publish reaches the name service, succeeds: it publishes
\* the increment of that revision, which becomes the latest, its sequence
\* number above the preceding one.
C15_ChainedFromPrecedingPublish ==
    UpdatePublished /\ result.reached
      /\ result.cached # Null /\ result.cached = result.latest =>
        /\ result.error = "none"
        /\ result.revision = increment(result.cached, IpfsPath(result.value))
        /\ result.revision.seq > result.cached.seq
        /\ pointer[ipnsName[result.agent].key] = result.revision
        /\ ipnsRevision[result.agent] = result.revision

\* the runtime that started the stream updated it
C15_Witness ==
    /\ UpdatePublished
    /\ result.error = "none"
    /\ result.cached # Null
    /\ result.cached = result.latest
    /\ result.cached.seq = 0
    /\ result.revision.seq = 1

\* C16: an updateMemoryStream whose resolve answered the latest revision,
\* no other writer publishing before its own publish reaches the name
\* service, is accepted whatever revision the runtime had cached: it chains
\* from the resolved revision and takes the next sequence number, above the
\* other writer's.
C16_ResolvedThenAccepted ==
    UpdatePublished /\ result.reached
      /\ result.latestRevision # Null /\ result.latestRevision = result.latest =>
        /\ result.error = "none"
        /\ result.revision = increment(result.latestRevision, IpfsPath(result.value))
        /\ result.revision.seq = result.latest.seq + 1
        /\ pointer[ipnsName[result.agent].key] = result.revision

\* a runtime whose cached revision another runtime has superseded adopts
\* the resolved one and is accepted
C16_Witness ==
    /\ UpdatePublished
    /\ result.error = "none"
    /\ result.cached # Null
    /\ result.latestRevision # Null
    /\ result.cached # result.latestRevision
    /\ result.latestRevision = result.latest
    /\ result.revision.seq > result.latest.seq

\* the operations of AgentRuntime
RuntimeOps ==
    {"storePublicMemory", "retrievePublicMemory", "startMemoryStream",
     "updateMemoryStream"}

\* C20: what an operation of AgentRuntime throws is of one of the typed
\* error classes.
C20_FailuresAreTyped ==
    result.op \in RuntimeOps /\ result.error # "none" =>
        result.error \in TypedErrors

(***************************************************************************)
(* Properties of storePublicMemory and of reads under a delegation.        *)
(***************************************************************************)
StoredPublic == result.op = "storePublicMemory"

\* C28: a storePublicMemory whose payload the schema rejects throws
\* ValidationError having invoked no upload, written nothing to the store
\* or the local cache, and pushed nothing on memoryCids.
C28_InvalidPayloadWritesNothing ==
    StoredPublic /\ result.error = "ValidationError" =>
        /\ result.calls = 0
        /\ result.value = Null
        /\ ~result.wrote
        /\ ~result.pushed

\* a payload rejected by the schema, on a runtime that stored one before
C28_Witness ==
    /\ StoredPublic
    /\ result.error = "ValidationError"
    /\ Len(memoryCids[result.agent]) = 1

\* the memories of `agent` the address stands for (one at most)
MemoriesAt(agent, cid) ==
    { m \in { Memory(agent, c) : c \in Contexts } :
        cid \in {Cid(MemoryObject(m)), MockCid(m)} }

\* `cid` is an address storePublicMemory returned to `agent`
StoredBy(agent, cid) ==
    \E i \in 1..Len(memoryCids[agent]) : memoryCids[agent][i] = cid

\* alice's read delegation to bob, unexpired
ReadGrant ==
    /\ result.delegation # NoDelegation
    /\ result.delegation.issuer = "did:key:alice"
    /\ result.delegation.audience = "did:key:bob"
    /\ verifyDelegation(result.delegation, "did:key:alice", "agent/read", Now).valid

\* C26: bob, presenting a valid read delegation alice issued to him, reads
\* an address storePublicMemory returned to alice, the gateway answering
\* within the retries when the address is a remote one: the record returned
\* is the one alice stored, agent_id alice and the context she gave,
\* whether the address is a CID or a local fallback address.
C26_DelegatedReadReturnsStored ==
    Retrieved /\ result.agent = "did:key:bob" /\ ReadGrant
      /\ StoredBy("did:key:alice", result.cid)
      /\ (result.reached \/ result.cid.prefix = "bafybeis1m") =>
        /\ result.error = "none"
        /\ result.value \in MemoriesAt("did:key:alice", result.cid)

\* such a read of a memory written on the local fallback path
C26_Witness ==
    /\ Retrieved /\ result.agent = "did:key:bob" /\ ReadGrant
    /\ StoredBy("did:key:alice", result.cid)
    /\ result.cid.prefix = "bafybeis1m"
    /\ result.value = Memory("did:key:alice", "ctx2")

(***************************************************************************)
(* Properties of fetchMemoryStream.                                        *)
(***************************************************************************)
Fetched == result.op = "fetchMemoryStream"

\* the revision last accepted for the name that was fetched
LatestPublished == pointer[result.name.key]

DelegatedTo == result.op = "delegateTo"

\* what getIssuedDelegations answers to the runtime of the last call
IssuedLedger == getIssuedDelegations(delegations[result.agent])

\* the DID the last delegateTo named as audience
AudienceDid == result.args.audience.did

\* C29: every entry of a runtime's issued ledger is a delegation that
\* runtime issued to the audience it is filed under; a delegateTo that
\* succeeds files the delegation it returns under its audience, in place of
\* the one held for that audience, and leaves every other entry as it was;
\* a delegateTo that throws leaves the ledger as it was.
C29_LedgerHoldsLatestPerAudience ==
    /\ \A agent \in Signers : \A k \in DOMAIN delegations[agent] :
         /\ delegations[agent][k].audience = k
         /\ delegations[agent][k].issuer = agent
    /\ DelegatedTo =>
         IF result.error = "none"
         THEN /\ DOMAIN IssuedLedger = DOMAIN result.before \cup {AudienceDid}
              /\ IssuedLedger[AudienceDid] = result.value
              /\ \A k \in DOMAIN result.before \ {AudienceDid} :
                   IssuedLedger[k] = result.before[k]
         ELSE IssuedLedger = result.before

\* a second delegation to an audience replaces the first, another audience's
\* entry being held as well
C29_Witness ==
    /\ DelegatedTo /\ result.error = "none"
    /\ AudienceDid \in DOMAIN result.before
    /\ result.before[AudienceDid] # result.value
    /\ Cardinality(DOMAIN IssuedLedger) = 2

\* C30: a delegateTo whose audience is a DID string, with an ability and a
\* time to live that are accepted, returns a delegation whose audience is
\* that DID and files it in the issued ledger under that DID.
C30_DidStringAudienceIsDelegated ==
    DelegatedTo /\ result.args.audience.type = "string"
      /\ AbilitySchemaOk(result.args.ability)
      /\ PositiveOk(result.args.expirationHours) =>
        /\ result.error = "none"
        /\ result.value # NoDelegation
        /\ result.value.audience = AudienceDid
        /\ AudienceDid \in DOMAIN IssuedLedger
        /\ IssuedLedger[AudienceDid] = result.value

(***************************************************************************)
(* Properties of received delegations.  `result` holds in `token` the      *)
(* archive bytes the call was given or fetched.                            *)
(***************************************************************************)
Received ==
    result.op \in {"fetchAndVerifyDelegation", "importDelegationFromApi"}

\* the archive the call obtained is no delegation, or the delegation in it
\* fails verifyDelegation against what the caller expects
CheckFails ==
    /\ result.fetched
    /\ LET d == deserializeDelegation(result.token)
       IN  \/ d.error # ""
           \/ ~verifyDelegation(d.value, result.expectedIssuerDid,
                                result.expectedAbility, Now).valid

\* C21: a call that receives a delegation which cannot be deserialized, or
\* which fails verification, throws: it does not answer null.
C21_FailedCheckIsExplicit ==
    Received /\ CheckFails => result.error # "none"

Decrypted == result.op = "decrypt"

\* the private key used to decrypt is the one of the recipient
RecipientKey ==
    instances[result.instance].seed = instances[envelope.recipient].seed

\* C23: decrypt, given the payload encrypt returned for a plaintext and a
\* public key, whatever random values encrypt drew, and the private key of
\* that public key, returns the plaintext, the empty one included.
C23_DecryptInvertsEncrypt ==
    Decrypted /\ envelope.altered = "" /\ RecipientKey =>
        /\ result.error = "none"
        /\ result.returned
        /\ result.value = envelope.data

\* the empty plaintext comes back to a later runtime of the recipient's seed
C23_Witness ==
    /\ Decrypted /\ envelope.altered = "" /\ RecipientKey
    /\ result.instance # envelope.recipient
    /\ envelope.data = <<>>
    /\ result.returned

\* C24: decrypt with a private key other than the recipient's, or of an
\* envelope one field of which was altered, throws and returns nothing.
C24_WrongKeyOrAlteredFails ==
    Decrypted /\ (~RecipientKey \/ envelope.altered # "") =>
        /\ result.error # "none"
        /\ ~result.returned

(***************************************************************************)
(* Properties of private memory.                                           *)
(***************************************************************************)
RetrievedPrivate == result.op = "retrievePrivateMemory"

\* the contexts a runtime of the seed can have stored at the address
StoredFor(seed, cid) ==
    { c \in PrivateContexts :
        \E nonce \in Nonces, random \in Randoms :
           LET key == getEncryptionKey(createIdentityFromSeed(seed), nonce)
               m == PrivateMemory(encrypt(JsonStringify(c), key.publicKey, random))
           IN  cid \in {Cid(MemoryObject(m)), MockCid(m)} }

\* the seed of the runtime that made the last call
CallerSeed == instances[result.instance].seed

\* C25: retrievePrivateMemory of an address at which a runtime loaded from
\* a seed stored a context, called on any runtime loaded from that seed,
\* returns that context, the gateway answering when the address is a remote
\* one: the runtime holds nothing but what the seed gives it.
C25_PrivateMemorySurvivesRestart ==
    RetrievedPrivate /\ StoredFor(CallerSeed, result.cid) # {}
      /\ (result.reached \/ result.cid.prefix = "bafybeis1m") =>
        /\ result.error = "none"
        /\ result.value \in StoredFor(CallerSeed, result.cid)

\* a runtime loaded after the one that stored, from the same seed, reads
\* the memory back
C25_Witness ==
    /\ RetrievedPrivate /\ result.error = "none"
    /\ result.value \in StoredFor(CallerSeed, result.cid)
    /\ result.instance = 3
    /\ instances[1].seed = CallerSeed
    /\ instances[2].seed # CallerSeed

(***************************************************************************)
(* Properties of verifyDelegation: expiry and audience.                    *)
(***************************************************************************)
\* C40: every token verifyDelegation reports valid has an expiration that is
\* present and not earlier than the current time (the claim as stated; 0
\* stands for a missing or zero expiration).
C40_ValidHasLiveExpiration ==
    (Verified /\ result.value.valid)
    => (delegation.expiration # 0 /\ delegation.expiration >= Now)

\* the token with the same issuer, capabilities and expiration, made out and
\* signed for another audience
ForAudience(d, audience) ==
    delegate(d.issuer, audience, d.capabilities, d.expiration)

\* what the read just made answered is what the same read given `token`
\* answers, under some behaviour of the network
AnsweredAs(token) ==
    \E script \in NetworkScripts :
        LET r == retrievePublicMemory(result.cid, token, Now, script, ipfs, localCache)
        IN  /\ result.error = r.error.kind
            /\ result.value = r.value
            /\ result.gets = r.gets
            /\ result.reached = Reaches(script)

\* C39: two delegations that differ only in audience verify identically for
\* every expected issuer and capability, and a retrievePublicMemory answers
\* the runtime that presents a token what it answers the token's audience.
C39_AudienceIsNotChecked ==
    (Retrieved /\ result.delegation # NoDelegation) =>
        \A audience \in Dids :
            LET other == ForAudience(result.delegation, audience)
            IN  /\ \A expectedIssuerDid \in Dids, expectedAbility \in Abilities :
                     verifyDelegation(other, expectedIssuerDid, expectedAbility, Now)
                       = verifyDelegation(result.delegation, expectedIssuerDid,
                                          expectedAbility, Now)
                /\ AnsweredAs(other)

\* a runtime that is not the audience of the token it presents is given the
\* memory
C39_Witness ==
    /\ Retrieved
    /\ result.delegation # NoDelegation
    /\ result.agent # result.delegation.audience
    /\ result.error = NoError.kind
    /\ result.value # Null

(***************************************************************************)
(* Properties of the local fallback.                                       *)
(***************************************************************************)
\* the upload just made took the local fallback
FellBack ==
    /\ result.op = "uploadMemory"
    /\ result.error = NoError.kind
    /\ result.value.prefix = "bafybeis1m"

\* the files of the cache that hold the payload just uploaded
FilesOfPayload == { f \in localCache : f.json = result.memory }

\* C34: an uploadMemory that takes the local fallback leaves the cache with
\* one file for the payload, under the address it returns: a payload
\* uploaded again gets the address of its first upload and no second file.
C34_FallbackIsIdempotent ==
    FellBack =>
        /\ FilesOfPayload = {LocalFile(result.value, result.memory)}
        /\ LocalRead(localCache, result.value) = result.memory

\* the payload was in the cache before the upload, which fell back on a
\* later attempt than the first
C34_Witness ==
    /\ FellBack
    /\ result.again
    /\ result.calls > 1
    /\ Cardinality(FilesOfPayload) = 1

(***************************************************************************)
(* Properties of updateMemoryStream and syncStream: the runtime's state.   *)
(***************************************************************************)
\* the updateMemoryStream call failed at the store write or at the publish
UpdateFailed ==
    /\ result.op = "updateMemoryStream"
    /\ result.step \in {"store", "publish"}
    /\ result.error # NoError.kind

\* C37: when updateMemoryStream fails, at the content-store write or at the
\* pointer publish, the runtime's list of stored CIDs and its cached
\* revision are what they were before the call (the claim as stated).
C37_FailedUpdateChangesNothing ==
    UpdateFailed =>
        /\ memoryCids[result.agent] = result.stored
        /\ ipnsRevision[result.agent] = result.cached

\* the cached revision of a runtime that keeps its stream name is still
\* there after the step, its sequence number no lower
KeepsSequence(agent) ==
    (ipnsRevision[agent] # Null /\ ipnsName'[agent] = ipnsName[agent])
    => /\ ipnsRevision'[agent] # Null
       /\ ipnsRevision'[agent].seq >= ipnsRevision[agent].seq

\* C38: the sequence number of a runtime's cached revision never decreases
\* across syncStream and updateMemoryStream calls: a resolve that answers
\* nothing, or a revision older than the cached one, leaves the cached
\* revision in place (the claim as stated).
C38_CachedSequenceNeverDecreases ==
    [][\A agent \in Signers : KeepsSequence(agent)]_vars

(***************************************************************************)
(* Key material and what storePrivateMemory writes.                        *)
(***************************************************************************)
\* the private memories written so far, to the store or to the local cache
WrittenMemories == { o.json : o \in ipfs } \cup { f.json : f \in localCache }

\* the byte strings a written private memory shows to whoever reads it
WrittenBytes(memory) == { FromHex(memory.payload[f]) : f \in DOMAIN memory.payload }

\* the written memory has the three fields of a private memory, and none of
\* its byte strings is the encryption private key or the signing key
HoldsNoKeyOf(memory, signer) ==
    /\ DOMAIN memory = {"encrypted", "encryptionMethod", "payload"}
    /\ \A bytes \in WrittenBytes(memory) :
          /\ \A nonce \in Nonces :
                bytes # getEncryptionKey(signer, nonce).privateKey
          /\ bytes # signer.secret

FetchedAndVerified == result.op = "fetchAndVerifyDelegation"

\* C32: fetchAndVerifyDelegation returns the delegation when it is valid and
\* null in every other case, the bytes that cannot be deserialized included;
\* it never raises an error to the caller (the claim as stated).
C32_FetchAndVerifyNeverThrows ==
    FetchedAndVerified =>
        /\ result.error = NoError.kind
        /\ result.value # Null =>
              verifyDelegation(result.value, result.expectedIssuerDid,
                               result.expectedAbility, Now).valid

\* some capability of the delegation is over its issuer's own resource
ScopedToIssuer(d) ==
    \E i \in DOMAIN d.capabilities : d.capabilities[i].with = d.issuer

\* the delegations a runtime holds: issued, or received
HeldDelegations ==
    UNION { { delegations[agent][k] : k \in DOMAIN delegations[agent] }
              \cup { receivedDelegations[agent][k] :
                        k \in DOMAIN receivedDelegations[agent] } :
            agent \in Signers }

\* C33: every delegation a runtime issued, returned, serialized (as an
\* archive in the store or the text of an API response) or accepted into
\* its received ledger has a capability whose resource scope is the
\* delegation's issuer.
C33_ScopeIsIssuer ==
    /\ \A d \in HeldDelegations : ScopedToIssuer(d)
    /\ origin = "issued" => ScopedToIssuer(delegation)
    /\ \A car \in Cars : ScopedToIssuer(deserializeDelegation(car.bytes).value)
    /\ transport.kind = "base64" =>
          ScopedToIssuer(delegationFromBase64(transport.bytes).value)
    /\ Received /\ result.value # Null => ScopedToIssuer(result.value)

\* bob holds a delegation he imported from the text of an API response,
\* whose archive alice also published
C33_Witness ==
    /\ result.op = "importDelegationFromApi" /\ result.value # Null
    /\ "did:key:alice" \in DOMAIN receivedDelegations["did:key:bob"]
    /\ receivedDelegations["did:key:bob"]["did:key:alice"] = result.value
    /\ \E car \in Cars : deserializeDelegation(car.bytes).value = result.value
    /\ result.value \in HeldDelegations

RetrievedWithDelegation == result.op = "retrieveWithDelegation"

\* the received ledger of the runtime that made the last call
ReceivedLedger == receivedDelegations[result.agent]

\* C35: retrieveWithDelegation returns content only if a delegation from the
\* issuer is in the received ledger and verifies for 'agent/read' at the
\* time of the call; with a delegation in the ledger whose expiration has
\* passed it returns null and reads nothing from the content store.
C35_RetrieveNeedsLiveDelegation ==
    RetrievedWithDelegation =>
        /\ result.value # Null =>
              /\ result.issuerDid \in DOMAIN ReceivedLedger
              /\ verifyDelegation(ReceivedLedger[result.issuerDid], result.issuerDid,
                                  "agent/read", Now).valid
        /\ (/\ result.issuerDid \in DOMAIN ReceivedLedger
            /\ ReceivedLedger[result.issuerDid].expiration < Now) =>
              /\ result.value = Null
              /\ result.gets = 0

\* the delegation bob fetched has expired since, the memory asked for is in
\* the store and the gateway answers: nothing is read
C35_Witness ==
    /\ RetrievedWithDelegation
    /\ result.issuerDid \in DOMAIN ReceivedLedger
    /\ ReceivedLedger[result.issuerDid].expiration < Now
    /\ result.reached
    /\ GatewayGet(ipfs, result.memoryCid, "memory.json") # Null
    /\ result.value = Null
    /\ result.gets = 0

\* a capability for the ability over the issuer's resource
Carries(d, ability, issuerDid) ==
    \E i \in DOMAIN d.capabilities :
        d.capabilities[i].can = ability /\ d.capabilities[i].with = issuerDid

\* C36: every delegation in a received ledger, under issuer identifier I,
\* has issuer I and a capability with resource scope I; a
\* fetchAndVerifyDelegation or importDelegationFromApi that returns a
\* delegation has filed it under the expected issuer, with the expected
\* ability over that issuer's resource, and one that returns none leaves
\* the ledger as it was.
C36_ReceivedLedgerIsVerified ==
    /\ \A agent \in Signers : \A k \in DOMAIN receivedDelegations[agent] :
          /\ receivedDelegations[agent][k].issuer = k
          /\ \E ability \in Abilities :
                Carries(receivedDelegations[agent][k], ability, k)
    /\ Received /\ result.value # Null =>
          /\ result.expectedIssuerDid \in DOMAIN ReceivedLedger
          /\ ReceivedLedger[result.expectedIssuerDid] = result.value
          /\ Carries(result.value, result.expectedAbility, result.expectedIssuerDid)
    /\ Received /\ result.value = Null => ReceivedLedger = result.before

\* a fetch that is refused, by a runtime that holds a delegation already
C36_Witness ==
    /\ FetchedAndVerified /\ result.fetched
    /\ result.value = Null
    /\ DOMAIN result.before # {}
    /\ ReceivedLedger = result.before

====
